---- MODULE Spec2Model ----
(***************************************************************************)
(* AgroSmart: the Dashboard's zone/pump control state, the DataService     *)
(* sensor normalization and its realtime subscriptions, the hooks that     *)
(* drive them (useSensorData, usePumpControl), the pump write with its     *)
(* audit log, and authentication (AuthService, useAuth, the Index page).   *)
(*                                                                         *)
(* Numbers.  JavaScript numbers are modelled as integers in thousandths    *)
(* (Scale): 55.5 is 55500.  Strings are sequences of one-character         *)
(* strings, so that parseFloat can be modelled by what it does.            *)
(***************************************************************************)
EXTENDS Integers, Sequences, FiniteSets, TLC

Scale == 10 * 10 * 10

\* ------------------------------------------------------------------ bounds
\* Interval firings of the Dashboard's setInterval that a run explores.
MaxTicks == 2
\* State updates React may hold queued before it renders.
MaxPending == 2

\* Longest generated raw string value of a sensor field.
MaxStrLen == 3
\* Writes to the remote store by other parties (the device, another client).
MaxWrites == 2
\* Calls of one subscription's unsubscribe function.
MaxUnsubCalls == 2
\* Calls of DataService.setPumpState.
MaxCalls == 2
\* Operations started on useAuth.
MaxAuthCalls == 2
\* Operations of usePumpControl next to the Dashboard's zone controls.
MaxControlOps == 1
\* Writes of the pump flag by other parties while usePumpControl operates.
MaxRaceWrites == 1
MaxPasswordLen == 6

VARIABLES
    \* Dashboard (src/unnamed/part_001)
    sensorData,     \* the committed value of useState<SensorData>
    updateQueue,    \* updater functions passed to setSensorData, not yet rendered
    ticksFired,     \* interval firings so far: the clock that lastUpdate reads
    \* Realtime database (external) and DataService (src/src/services/dataService.ts)
    sensorsNode,    \* the value stored at SmartIrrigation/Sensors
    pumpNode,       \* the value stored at SmartIrrigation/Controls/Pump
    writes,         \* remote writes so far
    registered,     \* per channel: handleData is registered with the database
    handle,         \* per channel: "none", or "held" once get...Stream has returned
    unsubCalls,     \* per channel: calls of the returned unsubscribe function
    unsubThrew,     \* per channel: a call of the unsubscribe function threw
    pendingEvents,  \* per channel: value events in flight from the database
    delivered,      \* per channel: snapshots handed to handleData, in order
    callbackLog,    \* per channel: arguments of the subscriber callback, in order
    pull,           \* the getSensorData call: its position and its outcome
    \* Hooks (src/unnamed/part_000, src/src/hooks/usePumpControl.ts)
    hookPc,         \* per hook: where its initialize... function stands
    cleanupRan,     \* per hook: the effect's cleanup has run (the view unmounted)
    unsubscribeVar, \* per hook: the effect's `unsubscribe` variable, "null" or "fn"
    sensorState,    \* useSensorData's state
    pumpState,      \* usePumpControl's state
    hookCalls,      \* usePumpControl's togglePump / setPumpStatus / refreshStatus calls
    \* DataService.setPumpState and the audit log (src/src/services/dataService.ts)
    pumpCalls,      \* the setPumpState calls made so far, each with its position
    auditLog,       \* the entries stored under SmartIrrigation/Actions, in order
    \* Authentication (AuthService, src/src/hooks/useAuth.ts, src/src/pages/Index.tsx)
    currentUser,    \* the provider's auth.currentUser, "null" when signed out
    authEventPending, \* an auth-state notification is in flight to useAuth
    authState,      \* useAuth's state {user, loading, error}
    authCall,       \* the useAuth operation in flight: its position and outcome
    providerLog,    \* the calls made to the authentication provider, in order
    activeTab,      \* Index's useState("dashboard")
    view,           \* the component Index has rendered
    passwordCheck   \* the AuthService.validatePassword call: argument and result

dashVars == <<sensorData, updateQueue, ticksFired>>
storeVars == <<sensorsNode, pumpNode, writes>>
streamVars == <<registered, handle, unsubCalls, unsubThrew, pendingEvents, delivered, callbackLog>>

hookVars == <<hookPc, cleanupRan, unsubscribeVar, sensorState, pumpState, hookCalls>>
pumpWriteVars == <<pumpCalls, auditLog>>
authVars == <<currentUser, authEventPending, authState, authCall, providerLog, activeTab, view,
              passwordCheck>>

vars == <<sensorData, updateQueue, ticksFired, sensorsNode, pumpNode, writes,
          registered, handle, unsubCalls, unsubThrew, pendingEvents, delivered,
          callbackLog, pull, hookPc, cleanupRan, unsubscribeVar, sensorState, pumpState,
          hookCalls, pumpCalls, auditLog, currentUser, authEventPending, authState, authCall,
          providerLog, activeTab, view, passwordCheck>>

\* ================================================================ helpers
Max(a, b) == IF a >= b THEN a ELSE b
Min(a, b) == IF a <= b THEN a ELSE b

\* ============================================================== Dashboard
\* Math.random() in percent: the samples a run draws from.  0 is its least
\* value, 99 stands for the values just under 1.
RandomDraws == {0, 99}

\* (Math.random() - 0.5) * width, in thousandths; width is given in tenths.
RandomDelta(r, widthTenths) == (r - 50) * widthTenths

SimulatedFields == {"soilMoisture", "sunlight", "rainfall", "tankLevel", "phLevel"}

\* useState's initial value.
InitialSensorData ==
    [ soilMoisture |-> 65 * Scale,
      sunlight     |-> 24 * Scale,
      rainfall     |-> 58 * Scale,
      tankLevel    |-> 82 * Scale,
      phLevel      |-> 6800,
      pumpStatus   |-> FALSE,
      zone1Status  |-> FALSE,
      zone2Status  |-> FALSE,
      isConnected  |-> TRUE,
      lastUpdate   |-> 0 ]

\* A plausible slip: the simulated update also switches the pump off.
intervalUpdate_stopsPump(prev, rnd, now) ==
    [ prev EXCEPT !.pumpStatus = FALSE, !.lastUpdate = now ]

\* The updater of the setInterval callback, for one draw of Math.random() per
\* field (rnd) and the clock reading now.
intervalUpdate(prev, rnd, now) ==
    [ prev EXCEPT
        !.soilMoisture = Max(30 * Scale, Min(100 * Scale, prev.soilMoisture + RandomDelta(rnd.soilMoisture, 100))),
        !.sunlight     = Max(15 * Scale, Min(35 * Scale, prev.sunlight + RandomDelta(rnd.sunlight, 20))),
        !.rainfall     = Max(40 * Scale, Min(90 * Scale, prev.rainfall + RandomDelta(rnd.rainfall, 50))),
        !.tankLevel    = Max(0, Min(100 * Scale, prev.tankLevel + RandomDelta(rnd.tankLevel, 30))),
        !.phLevel      = Max(5000, Min(8500, prev.phLevel + RandomDelta(rnd.phLevel, 3))),
        !.lastUpdate   = now ]

\* A plausible slip: switching zone 1 on switches zone 2 off.
toggleZone1_exclusive(prev) ==
    [ prev EXCEPT !.zone1Status = ~prev.zone1Status,
                  !.zone2Status = prev.zone2Status /\ prev.zone1Status,
                  !.pumpStatus  = ~prev.zone1Status \/ (prev.zone2Status /\ prev.zone1Status) ]

\* A plausible slip: the zone flag is flipped, the pump keeps the value that the
\* old zone flags gave.
toggleZone1_stalePump(prev) ==
    [ prev EXCEPT !.zone1Status = ~prev.zone1Status,
                  !.pumpStatus = prev.zone1Status \/ prev.zone2Status ]

\* The updater of toggleZone1.
toggleZone1(prev) ==
    LET newZone1Status == ~prev.zone1Status
        newPumpStatus == newZone1Status \/ prev.zone2Status
    IN  [ prev EXCEPT !.zone1Status = newZone1Status,
                      !.pumpStatus = newPumpStatus ]

\* A plausible slip: the pump follows the toggled zone alone.
toggleZone2_pumpFollowsZone(prev) ==
    [ prev EXCEPT !.zone2Status = ~prev.zone2Status,
                  !.pumpStatus = ~prev.zone2Status ]

\* The updater of toggleZone2.
toggleZone2(prev) ==
    LET newZone2Status == ~prev.zone2Status
        newPumpStatus == prev.zone1Status \/ newZone2Status
    IN  [ prev EXCEPT !.zone2Status = newZone2Status,
                      !.pumpStatus = newPumpStatus ]

\* The states one queued updater can produce from prev.
ApplyUpdater(prev, u, now) ==
    CASE u = "toggleZone1" -> {toggleZone1(prev)}
      [] u = "toggleZone2" -> {toggleZone2(prev)}
      [] u = "interval"    ->
            {intervalUpdate(prev, rnd, now) : rnd \in [SimulatedFields -> RandomDraws]}

\* React applies the queued updaters in order, each to the result of the one
\* before, and commits the last result.
RECURSIVE ProcessQueue(_, _, _)
ProcessQueue(prev, queue, now) ==
    IF queue = <<>> THEN {prev}
    ELSE UNION {ProcessQueue(s, Tail(queue), now) : s \in ApplyUpdater(prev, Head(queue), now)}

\* ====================================================== JavaScript values
\* A value read from the realtime database (snapshot.val()) or a property of
\* one: null, a boolean, a number (in thousandths), a string (a sequence of
\* characters), or an object (a map from its keys; an absent key reads as
\* undefined).
Undefined == [t |-> "undefined"]
Null == [t |-> "null"]
Bool(b) == [t |-> "boolean", b |-> b]
Num(n) == [t |-> "number", n |-> n]
Str(s) == [t |-> "string", s |-> s]
Obj(f) == [t |-> "object", f |-> f]

\* JavaScript's ToBoolean, as `!data` and `state || 'OFF'` use it.
Truthy(v) ==
    CASE v.t = "undefined" -> FALSE
      [] v.t = "null"      -> FALSE
      [] v.t = "boolean"   -> v.b
      [] v.t = "number"    -> v.n # 0
      [] v.t = "string"    -> v.s # <<>>
      [] OTHER             -> TRUE

\* data[key] for a data that is neither null nor undefined: only an object has
\* the sensor keys; a string, a number or a boolean has no such property.
GetProperty(data, key) ==
    IF data.t = "object" /\ key \in DOMAIN data.f THEN data.f[key] ELSE Undefined

Digits == {"0", "1", "2", "3", "4", "5", "6", "7", "8", "9"}

DigitValue(c) ==
    CASE c = "0" -> 0 [] c = "1" -> 1 [] c = "2" -> 2 [] c = "3" -> 3 [] c = "4" -> 4
      [] c = "5" -> 5 [] c = "6" -> 6 [] c = "7" -> 7 [] c = "8" -> 8 [] c = "9" -> 9

\* The number of digits of s starting at position i.
RECURSIVE DigitRun(_, _)
DigitRun(s, i) ==
    IF i <= Len(s) /\ s[i] \in Digits THEN 1 + DigitRun(s, i + 1) ELSE 0

\* The value of the n digits of s starting at position i.
RECURSIVE DigitsValue(_, _, _)
DigitsValue(s, i, n) ==
    IF n = 0 THEN 0 ELSE 10 * DigitsValue(s, i, n - 1) + DigitValue(s[i + n - 1])

\* The fraction digits s[i .. i+n-1] in thousandths (digits past the third are
\* dropped: the model keeps three decimals).
FractionValue(s, i, n) ==
    (IF n >= 1 THEN 100 * DigitValue(s[i]) ELSE 0)
    + (IF n >= 2 THEN 10 * DigitValue(s[i + 1]) ELSE 0)
    + (IF n >= 3 THEN DigitValue(s[i + 2]) ELSE 0)

\* The decimal literal at the start of s: [nan, val, used], used being the
\* number of characters of s that the literal takes.  A sign, digits, a point,
\* digits; at least one digit in all.
ParseDecimalPrefix(s) ==
    LET negative == Len(s) >= 1 /\ s[1] = "-"
        signed   == Len(s) >= 1 /\ s[1] \in {"-", "+"}
        start    == IF signed THEN 2 ELSE 1
        intLen   == DigitRun(s, start)
        dot      == start + intLen
        hasDot   == dot <= Len(s) /\ s[dot] = "."
        fracLen  == IF hasDot THEN DigitRun(s, dot + 1) ELSE 0
        magnitude == DigitsValue(s, start, intLen) * Scale + FractionValue(s, dot + 1, fracLen)
    IN  IF intLen + fracLen = 0
        THEN [nan |-> TRUE, val |-> 0, used |-> 0]
        ELSE [nan |-> FALSE,
              val |-> IF negative THEN 0 - magnitude ELSE magnitude,
              used |-> (start - 1) + intLen + (IF hasDot THEN 1 + fracLen ELSE 0)]

\* parseFloat(v): v is converted to a string and the longest decimal literal at
\* its start is the result; NaN when there is none.  A number converts to its
\* own literal; true, false and an object to text that starts with no digit.
parseFloat(v) ==
    CASE v.t = "number" -> [nan |-> FALSE, val |-> v.n]
      [] v.t = "string" -> [nan |-> ParseDecimalPrefix(v.s).nan, val |-> ParseDecimalPrefix(v.s).val]
      [] OTHER          -> [nan |-> TRUE, val |-> 0]

\* ============================================================ DataService
FirebaseSensorFields == {"SoilMoisture", "Temperature", "Humidity", "TankLevel", "FlowRate_LperMin"}
SensorDataKeys == {"soilMoisture", "temperature", "humidity", "tankLevel", "flowRate"}

DEFAULT_SENSOR_DATA ==
    [ soilMoisture |-> 0, temperature |-> 0, humidity |-> 0, tankLevel |-> 0, flowRate |-> 0 ]

VALIDATION_RANGES ==
    [ soilMoisture |-> [min |-> 0, max |-> 100 * Scale],
      temperature  |-> [min |-> (0 - 50) * Scale, max |-> 100 * Scale],
      humidity     |-> [min |-> 0, max |-> 100 * Scale],
      tankLevel    |-> [min |-> 0, max |-> 100 * Scale],
      flowRate     |-> [min |-> 0, max |-> 1000 * Scale] ]

mapFirebaseToSensorData(firebaseKey) ==
    CASE firebaseKey = "SoilMoisture"     -> "soilMoisture"
      [] firebaseKey = "Temperature"      -> "temperature"
      [] firebaseKey = "Humidity"         -> "humidity"
      [] firebaseKey = "TankLevel"        -> "tankLevel"
      [] firebaseKey = "FlowRate_LperMin" -> "flowRate"

\* A plausible slip: the upper bound is applied, the lower one forgotten.
parseAndValidateSensorValue_noLowerBound(data, key) ==
    IF ~Truthy(data) \/ GetProperty(data, key).t \in {"null", "undefined"}
    THEN DEFAULT_SENSOR_DATA[mapFirebaseToSensorData(key)]
    ELSE LET value == parseFloat(GetProperty(data, key))
             range == VALIDATION_RANGES[mapFirebaseToSensorData(key)]
         IN  IF value.nan
             THEN DEFAULT_SENSOR_DATA[mapFirebaseToSensorData(key)]
             ELSE Min(range.max, value.val)

parseAndValidateSensorValue(data, key) ==
    IF ~Truthy(data) \/ GetProperty(data, key).t \in {"null", "undefined"}
    THEN DEFAULT_SENSOR_DATA[mapFirebaseToSensorData(key)]
    ELSE LET value == parseFloat(GetProperty(data, key))
             range == VALIDATION_RANGES[mapFirebaseToSensorData(key)]
         IN  IF value.nan
             THEN DEFAULT_SENSOR_DATA[mapFirebaseToSensorData(key)]
             ELSE Max(range.min, Min(range.max, value.val))

\* A plausible slip: one field is read under another field's key.
StreamSensorData_crossedFields(data) ==
    [ soilMoisture |-> parseAndValidateSensorValue(data, "SoilMoisture"),
      temperature  |-> parseAndValidateSensorValue(data, "Temperature"),
      humidity     |-> parseAndValidateSensorValue(data, "Temperature"),
      tankLevel    |-> parseAndValidateSensorValue(data, "TankLevel"),
      flowRate     |-> parseAndValidateSensorValue(data, "FlowRate_LperMin") ]

\* The record handleData builds from a snapshot value (getSensorDataStream).
StreamSensorData(data) ==
    [ soilMoisture |-> parseAndValidateSensorValue(data, "SoilMoisture"),
      temperature  |-> parseAndValidateSensorValue(data, "Temperature"),
      humidity     |-> parseAndValidateSensorValue(data, "Humidity"),
      tankLevel    |-> parseAndValidateSensorValue(data, "TankLevel"),
      flowRate     |-> parseAndValidateSensorValue(data, "FlowRate_LperMin") ]

\* handleData of getSensorDataStream: the arguments of the callback calls it
\* makes for one snapshot, in order.  callbackThrows: the subscriber's callback
\* throws when called with the record; the throw happens inside the try block,
\* so the catch block calls the callback again with the default record.
sensorsHandleData(data, callbackThrows) ==
    IF callbackThrows
    THEN <<StreamSensorData(data), DEFAULT_SENSOR_DATA>>
    ELSE <<StreamSensorData(data)>>

\* A plausible slip: the key of one field is mistyped in the pull variant.
PullSensorData_keyTypo(data) ==
    [ soilMoisture |-> parseAndValidateSensorValue(data, "SoilMoisture"),
      temperature  |-> parseAndValidateSensorValue(data, "Temperature"),
      humidity     |-> parseAndValidateSensorValue(data, "Humidity"),
      tankLevel    |-> DEFAULT_SENSOR_DATA.tankLevel,
      flowRate     |-> parseAndValidateSensorValue(data, "FlowRate_LperMin") ]

\* A plausible slip: flowRate is passed through as parsed, without the clamp.
PullSensorData_rawFlowRate(data) ==
    [ soilMoisture |-> parseAndValidateSensorValue(data, "SoilMoisture"),
      temperature  |-> parseAndValidateSensorValue(data, "Temperature"),
      humidity     |-> parseAndValidateSensorValue(data, "Humidity"),
      tankLevel    |-> parseAndValidateSensorValue(data, "TankLevel"),
      flowRate     |-> parseFloat(GetProperty(data, "FlowRate_LperMin")).val ]

\* The record getSensorData builds from a snapshot value.
PullSensorData(data) ==
    [ soilMoisture |-> parseAndValidateSensorValue(data, "SoilMoisture"),
      temperature  |-> parseAndValidateSensorValue(data, "Temperature"),
      humidity     |-> parseAndValidateSensorValue(data, "Humidity"),
      tankLevel    |-> parseAndValidateSensorValue(data, "TankLevel"),
      flowRate     |-> parseAndValidateSensorValue(data, "FlowRate_LperMin") ]

\* A plausible slip: no try/catch, the transport error reaches the caller.
getSensorData_rethrows(read) ==
    IF read.failed THEN [settled |-> "rejected", value |-> DEFAULT_SENSOR_DATA]
    ELSE IF ~Truthy(read.val) THEN [settled |-> "resolved", value |-> DEFAULT_SENSOR_DATA]
    ELSE [settled |-> "resolved", value |-> PullSensorData(read.val)]

\* getSensorData, for the outcome of `await get(sensorsRef)`: read.failed when
\* the read rejected, else read.val is snapshot.val().
getSensorData(read) ==
    IF read.failed THEN [settled |-> "resolved", value |-> DEFAULT_SENSOR_DATA]
    ELSE IF ~Truthy(read.val) THEN [settled |-> "resolved", value |-> DEFAULT_SENSOR_DATA]
    ELSE [settled |-> "resolved", value |-> PullSensorData(read.val)]

ON == Str(<<"O", "N">>)
OFF == Str(<<"O", "F", "F">>)
MAYBE == Str(<<"M", "A", "Y", "B", "E">>)

\* handleData of getPumpStateStream: callback(state || 'OFF') inside the try
\* block, callback('OFF') in the catch block.
pumpHandleData(state, callbackThrows) ==
    LET arg == IF Truthy(state) THEN state ELSE OFF
    IN  IF callbackThrows THEN <<arg, OFF>> ELSE <<arg>>

\* A plausible slip: off() is given a new function, which matches no listener.
unsubscribeSensors_otherHandler(reg) == [registered |-> reg, threw |-> FALSE]

\* The function getSensorDataStream returns: off(sensorsRef, 'value', handleData)
\* removes handleData when it is registered and does nothing otherwise.
unsubscribeSensors(reg) == [registered |-> FALSE, threw |-> FALSE]

\* A plausible slip: the returned function switches the listener on and off.
unsubscribePump_toggles(reg) == [registered |-> ~reg, threw |-> FALSE]

\* The function getPumpStateStream returns: off(pumpRef, 'value', handleData).
unsubscribePump(reg) == [registered |-> FALSE, threw |-> FALSE]

Channels == {"sensors", "pump"}

\* ------------------------------------------------------------ raw inputs
Alphabet == {"0", "1", "5", ".", "-", "a"}

GeneratedStrings == UNION {[1..n -> Alphabet] : n \in 0..MaxStrLen}

RawNumbers ==
    {Num(n * Scale) : n \in {0 - 60, 0 - 50, 0 - 10, 0, 42, 100, 150, 1000, 1001}}
    \cup {Num(55500), Num(0 - 1), Num(100 * Scale + 1)}

\* Every kind of value a sensor field may hold.
FieldValues ==
    {Undefined, Null, Bool(TRUE), Bool(FALSE), Obj(<<>>)}
    \cup RawNumbers
    \cup {Str(s) : s \in GeneratedStrings}
    \cup {Str(<<"5", "5", ".", "5">>), Str(<<"a", "b", "c">>), Str(<<"1", "2", "a", "b", "c">>)}

\* The values the fields of a record take in combination.
CoreValues == {Undefined, Null, Num(150 * Scale), Str(<<"-", "1", "0">>), Str(<<"a", "b", "c">>)}

RawKeys == FirebaseSensorFields \cup {"pH"}

NoFields == [k \in RawKeys |-> Undefined]

\* The raw reading of the documented scenario.
ScenarioReading ==
    Obj([ SoilMoisture     |-> Str(<<"1", "5", "0">>),
          Temperature      |-> Null,
          Humidity         |-> Str(<<"5", "5", ".", "5">>),
          TankLevel        |-> Str(<<"-", "1", "0">>),
          FlowRate_LperMin |-> Str(<<"a", "b", "c">>),
          pH               |-> Undefined ])

PartialReading == Obj([NoFields EXCEPT !["SoilMoisture"] = Num(42 * Scale)])

\* The snapshot values normalization is run on: values that are no object,
\* records of core values with and without a key outside the mapping, records
\* with one field of any kind, and the scenario.
Snapshots ==
    {Null, Bool(FALSE), Bool(TRUE), Num(0), Num(42 * Scale), Str(<<>>), Str(<<"1", "5">>)}
    \cup {Obj([k \in RawKeys |-> IF k = "pH" THEN extra ELSE f[k]]) :
              f \in [FirebaseSensorFields -> CoreValues], extra \in {Undefined, Num(7 * Scale)}}
    \cup {Obj([NoFields EXCEPT ![k] = v]) : k \in FirebaseSensorFields, v \in FieldValues}
    \cup {ScenarioReading}

\* The values other parties write while a subscription is followed.
StreamSensorValues == {Null, ScenarioReading}
StreamPumpValues == {Null, ON, MAYBE}

Node(ch) == IF ch = "sensors" THEN sensorsNode ELSE pumpNode

\* The callback calls handleData makes for one snapshot of a channel.
HandleData(ch, data, callbackThrows) ==
    IF ch = "sensors" THEN sensorsHandleData(data, callbackThrows)
    ELSE pumpHandleData(data, callbackThrows)

Unsubscribed(ch, reg) ==
    IF ch = "sensors" THEN unsubscribeSensors(reg) ELSE unsubscribePump(reg)

\* ================================================================== hooks
Hooks == {"useSensorData", "usePumpControl"}

\* The stream a hook subscribes to.
ChannelOf(h) == IF h = "useSensorData" THEN "sensors" ELSE "pump"

\* checkConnection, for the outcome of `await get(connectedRef)`: true only
\* when the read succeeded and held true.
checkConnection(read) == ~read.failed /\ read.val = Bool(TRUE)

\* getPumpState, for the outcome of `await get(pumpRef)`.
getPumpState(read) ==
    IF read.failed THEN OFF
    ELSE IF Truthy(read.val) THEN read.val ELSE OFF

InitialSensorState ==
    [ data |-> DEFAULT_SENSOR_DATA, loading |-> TRUE, error |-> "null", connected |-> FALSE ]

InitialPumpState ==
    [ pumpStatus |-> OFF, loading |-> TRUE, error |-> "null", connected |-> FALSE ]

\* useSensorData.updateSensorData's updater.
updateSensorData(prev, newData) ==
    [ prev EXCEPT !.data = newData, !.loading = FALSE, !.error = "null" ]

\* usePumpControl.updatePumpStatus's updater.
updatePumpStatus(prev, status) ==
    [ prev EXCEPT !.pumpStatus = status, !.loading = FALSE, !.error = "null" ]

\* updateConnectionStatus's updater, the same in both hooks.
updateConnectionStatus(prev, connected) == [ prev EXCEPT !.connected = connected ]

\* useSensorData.refreshData: the updater it begins with.
sensorOperationStarted(prev) == [ prev EXCEPT !.loading = TRUE, !.error = "null" ]

\* usePumpControl: the updater togglePump, setPumpStatus and refreshStatus
\* begin with.
pumpOperationStarted(prev) == [ prev EXCEPT !.loading = TRUE, !.error = "null" ]

\* usePumpControl.handleError's updater.
handleError(prev, error) == [ prev EXCEPT !.loading = FALSE, !.error = error ]

\* togglePump: the status it requests, from the status its closure holds.
toggledStatus(status) == IF status = ON THEN OFF ELSE ON

\* A plausible slip: the requested status is shown whether or not the write
\* succeeded.
pumpWriteReturned_optimistic(prev, op, status, success) ==
    IF success THEN updatePumpStatus(prev, status)
    ELSE [ handleError(prev, "Failed to update pump status") EXCEPT !.pumpStatus = status ]

\* togglePump / setPumpStatus after `await DataService.setPumpState(...)`.
pumpWriteReturned(prev, op, status, success) ==
    IF success THEN updatePumpStatus(prev, status)
    ELSE handleError(prev, IF op = "togglePump" THEN "Failed to update pump status"
                           ELSE "Failed to set pump status")

\* The effect's cleanup: `if (unsubscribe) unsubscribe()`.  The result is the
\* listener's registration after it and whether unsubscribe was called.
effectCleanup(h, unsub, reg) ==
    IF unsub = "fn"
    THEN [registered |-> Unsubscribed(ChannelOf(h), reg).registered, called |-> TRUE]
    ELSE [registered |-> reg, called |-> FALSE]

\* ============================================================== pump write
\* The arguments setPumpState is called with: the two literals and one other
\* string, which TypeScript's types forbid and JavaScript callers can pass.
PumpArgs == {ON, OFF, MAYBE}

WEB_APP == Str(<<"w", "e", "b", "_", "a", "p", "p">>)

\* The template literal `Pump:${state}`.
PumpAction(state) == Str(<<"P", "u", "m", "p", ":">> \o state.s)

\* The reading of the clock that `new Date()` takes: operations on the
\* database so far.
Now == writes + Len(pumpCalls) + Len(auditLog)

\* A setPumpState call up to its first await.  pc is "set" while it awaits
\* set(pumpRef, state), "log" while it awaits logAction, "returned" after.
\* wrote, logOutcome and entry record what the call has done: the write of the
\* pump flag, the outcome of logAction's write, the position of its audit entry.
setPumpState_unvalidated(state) ==
    [ state |-> state, pc |-> "set", settled |-> "none", result |-> FALSE,
      wrote |-> FALSE, logOutcome |-> "none", entry |-> 0 ]

setPumpState(state) ==
    IF state # ON /\ state # OFF
    THEN \* throw new Error(...) inside the try: the catch returns false
         [ state |-> state, pc |-> "returned", settled |-> "resolved", result |-> FALSE,
           wrote |-> FALSE, logOutcome |-> "none", entry |-> 0 ]
    ELSE [ state |-> state, pc |-> "set", settled |-> "none", result |-> FALSE,
           wrote |-> FALSE, logOutcome |-> "none", entry |-> 0 ]

\* setPumpState after `await set(pumpRef, state)` has settled.
setPumpStateWritten_rethrows(call, failed) ==
    IF failed
    THEN [ call EXCEPT !.pc = "returned", !.settled = "rejected" ]
    ELSE [ call EXCEPT !.pc = "log", !.wrote = TRUE ]

\* A plausible slip: the write's failure is swallowed on its own and the call
\* goes on to log the action.
setPumpStateWritten_logsAnyway(call, failed) ==
    [ call EXCEPT !.pc = "log", !.wrote = ~failed ]

setPumpStateWritten(call, failed) ==
    IF failed
    THEN [ call EXCEPT !.pc = "returned", !.settled = "resolved", !.result = FALSE ]
    ELSE [ call EXCEPT !.pc = "log", !.wrote = TRUE ]

\* logAction, for the outcome of its `await set(newActionRef, {...})`: the audit
\* log after it.  A failure is caught and logged to the console.
logAction_unattributed(log, action, now, failed) ==
    IF failed THEN log
    ELSE Append(log, [ action |-> action, timestamp |-> now ])

logAction(log, action, now, failed) ==
    IF failed THEN log
    ELSE Append(log, [ action |-> action, timestamp |-> now, user |-> WEB_APP ])

\* setPumpState after `await this.logAction(...)`: return true.
setPumpStateLogged(call, failed, entry) ==
    [ call EXCEPT !.pc = "returned", !.settled = "resolved", !.result = TRUE,
                  !.logOutcome = IF failed THEN "failed" ELSE "ok",
                  !.entry = IF failed THEN 0 ELSE entry ]

\* ========================================================== authentication
Upper == {"A", "B", "C", "D", "E", "F", "G", "H", "I", "J", "K", "L", "M",
          "N", "O", "P", "Q", "R", "S", "T", "U", "V", "W", "X", "Y", "Z"}
Lower == {"a", "b", "c", "d", "e", "f", "g", "h", "i", "j", "k", "l", "m",
          "n", "o", "p", "q", "r", "s", "t", "u", "v", "w", "x", "y", "z"}
\* The regular expression class \w.
WordChars == Upper \cup Lower \cup Digits \cup {"_"}

\* isValidEmail: /^[\w-\.]+@([\w-]+\.)+[\w-]{2,4}$/ tested on a string of
\* characters.  Neither class holds "@", so a match has exactly one; "." is
\* not in [\w-], so the part after "@" splits into its labels in one way.
isValidEmail(email) ==
    LET n == Len(email)
        ats == {i \in 1..n : email[i] = "@"}
    IN  /\ Cardinality(ats) = 1
        /\ LET at == CHOOSE i \in ats : TRUE
               dots == {i \in (at + 1)..n : email[i] = "."}
           IN  /\ at > 1
               /\ \A i \in 1..(at - 1) : email[i] \in WordChars \cup {"-", "."}
               /\ \A i \in (at + 1)..n : email[i] \in WordChars \cup {"-", "."}
               /\ dots # {}
               /\ (at + 1) \notin dots
               /\ \A i \in dots : (i + 1) \notin dots
               /\ \E last \in dots :
                    /\ \A i \in dots : i <= last
                    /\ n - last \in 2..4

\* A plausible slip: the lowercase rule is tested before the uppercase rule.
validatePassword_lowercaseFirst(password) ==
    IF Len(password) < 6 THEN "Password must be at least 6 characters long."
    ELSE IF ~\E i \in DOMAIN password : password[i] \in Lower
         THEN "Password must contain at least one lowercase letter."
    ELSE IF ~\E i \in DOMAIN password : password[i] \in Upper
         THEN "Password must contain at least one uppercase letter."
    ELSE IF ~\E i \in DOMAIN password : password[i] \in Digits
         THEN "Password must contain at least one number."
    ELSE "null"

\* validatePassword: the first rule the password breaks, "null" for none.
validatePassword(password) ==
    IF Len(password) < 6 THEN "Password must be at least 6 characters long."
    ELSE IF ~\E i \in DOMAIN password : password[i] \in Upper
         THEN "Password must contain at least one uppercase letter."
    ELSE IF ~\E i \in DOMAIN password : password[i] \in Lower
         THEN "Password must contain at least one lowercase letter."
    ELSE IF ~\E i \in DOMAIN password : password[i] \in Digits
         THEN "Password must contain at least one number."
    ELSE "null"

\* getAuthErrorMessage.  An error is [code, message]; a code of "undefined" is
\* an error object without one, and "" a message that is absent or empty.
getAuthErrorMessage(error) ==
    CASE error.code = "auth/user-not-found" -> "No user found with this email address."
      [] error.code = "auth/wrong-password" -> "Incorrect password. Please try again."
      [] error.code = "auth/email-already-in-use" ->
            "An account already exists with this email address."
      [] error.code = "auth/weak-password" ->
            "Password is too weak. Please choose a stronger password."
      [] error.code = "auth/invalid-email" ->
            "Invalid email address. Please check your email."
      [] error.code = "auth/user-disabled" ->
            "This account has been disabled. Please contact support."
      [] error.code = "auth/too-many-requests" ->
            "Too many failed attempts. Please try again later."
      [] error.code = "auth/operation-not-allowed" ->
            "This sign-in method is not allowed. Please contact support."
      [] error.code = "auth/invalid-credential" ->
            "Invalid credentials. Please check your email and password."
      [] error.code = "auth/requires-recent-login" ->
            "Please sign in again to perform this action."
      [] OTHER -> IF error.message # "" THEN error.message
                  ELSE "An authentication error occurred."

\* The operations of AuthService that useAuth wraps.
AuthOps == {"signIn", "signUp", "signOut", "sendPasswordResetEmail",
            "updateUserProfile", "changePassword", "deleteAccount"}

\* The provider functions an operation awaits, in order.
ProviderCalls(op, withName) ==
    CASE op = "signIn" -> <<"signInWithEmailAndPassword">>
      [] op = "signUp" -> IF withName
                          THEN <<"createUserWithEmailAndPassword", "updateProfile">>
                          ELSE <<"createUserWithEmailAndPassword">>
      [] op = "signOut" -> <<"signOut">>
      [] op = "sendPasswordResetEmail" -> <<"sendPasswordResetEmail">>
      [] op = "updateUserProfile" -> <<"updateProfile">>
      [] op = "changePassword" -> <<"reauthenticateWithCredential", "updatePassword">>
      [] op = "deleteAccount" -> <<"reauthenticateWithCredential", "deleteUser">>

\* The operations that begin with `if (!auth.currentUser ...) throw new
\* Error('No user logged in')`.
NeedsCurrentUser(op) == op \in {"updateUserProfile", "changePassword", "deleteAccount"}

NoUserLoggedIn == [code |-> "undefined", message |-> "No user logged in"]

\* auth.currentUser after a provider function has succeeded.
CurrentUserAfter(fn, user, signedIn) ==
    CASE fn \in {"signInWithEmailAndPassword", "createUserWithEmailAndPassword"} -> signedIn
      [] fn \in {"signOut", "deleteUser"} -> "null"
      [] OTHER -> user

InitialAuthState == [user |-> "null", loading |-> TRUE, error |-> "null"]

\* No operation has been started.  n counts the operations started, step is
\* the provider function being awaited, settled and thrown are the outcome.
NoAuthCall ==
    [n |-> 0, pc |-> "idle", op |-> "none", withName |-> FALSE, step |-> 0,
     settled |-> "none", thrown |-> "null"]

\* useAuth's updaters.
authStarted(prev) == [prev EXCEPT !.loading = TRUE, !.error = "null"]
authFailed(prev, error) == [prev EXCEPT !.loading = FALSE, !.error = error]
\* The onAuthStateChanged callback.
authStateChanged(user) == [user |-> user, loading |-> FALSE, error |-> "null"]

\* Index: the component it returns.
IndexRender_unguarded(user, tab) ==
    CASE tab = "charts" -> "Charts"
      [] tab = "reports" -> "Reports"
      [] tab = "settings" -> "Settings"
      [] OTHER -> "Dashboard"

IndexRender(user, tab) ==
    IF user = "null" THEN "AuthWrapper"
    ELSE CASE tab = "charts" -> "Charts"
           [] tab = "reports" -> "Reports"
           [] tab = "settings" -> "Settings"
           [] OTHER -> "Dashboard"

\* ================================================================ actions
InitDashboard ==
    /\ sensorData = InitialSensorData
    /\ updateQueue = <<>>
    /\ ticksFired = 0

\* No subscription made, no call in flight.
InitService ==
    /\ writes = 0
    /\ registered = [ch \in Channels |-> FALSE]
    /\ handle = [ch \in Channels |-> "none"]
    /\ unsubCalls = [ch \in Channels |-> 0]
    /\ unsubThrew = [ch \in Channels |-> FALSE]
    /\ pendingEvents = [ch \in Channels |-> <<>>]
    /\ delivered = [ch \in Channels |-> <<>>]
    /\ callbackLog = [ch \in Channels |-> <<>>]
    /\ pull = [pc |-> "idle", settled |-> "none", failed |-> FALSE, read |-> Null,
               value |-> DEFAULT_SENSOR_DATA]

\* The hooks' views have mounted: each effect has called its initialize...
\* function, which awaits checkConnection().
InitHooks ==
    /\ hookPc = [h \in Hooks |-> "checkConnection"]
    /\ cleanupRan = [h \in Hooks |-> FALSE]
    /\ unsubscribeVar = [h \in Hooks |-> "null"]
    /\ sensorState = InitialSensorState
    /\ pumpState = InitialPumpState
    /\ hookCalls = <<>>

\* No setPumpState call has been made; the audit log is empty.
InitPumpWrite ==
    /\ pumpCalls = <<>>
    /\ auditLog = <<>>

\* Index has mounted with useAuth's initial state; the provider has no session
\* and its first auth-state notification is in flight.
InitAuth ==
    /\ currentUser = "null"
    /\ authEventPending = TRUE
    /\ authState = InitialAuthState
    /\ authCall = NoAuthCall
    /\ providerLog = <<>>
    /\ activeTab = "dashboard"
    /\ view = IndexRender(authState.user, activeTab)
    /\ passwordCheck = [password |-> <<>>, result |-> "none"]

\* ------------------------------------------------------------- Dashboard
\* A plausible slip: the click also asks DataService to switch the remote pump.
ToggleZone1_writesPump ==
    /\ Len(updateQueue) < MaxPending
    /\ Len(pumpCalls) < MaxCalls
    /\ updateQueue' = Append(updateQueue, "toggleZone1")
    /\ pumpCalls' = Append(pumpCalls, setPumpState(IF sensorData.zone1Status THEN OFF ELSE ON))
    /\ UNCHANGED <<auditLog, authVars>>
    /\ UNCHANGED <<sensorData, ticksFired, storeVars, streamVars, pull, hookVars>>

\* A click on the Zone 1 switch: toggleZone1 calls setSensorData(updater).
ToggleZone1 ==
    /\ Len(updateQueue) < MaxPending
    /\ updateQueue' = Append(updateQueue, "toggleZone1")
    /\ UNCHANGED <<pumpWriteVars, authVars>>
    /\ UNCHANGED <<sensorData, ticksFired, storeVars, streamVars, pull, hookVars>>

\* A click on the Zone 2 switch: toggleZone2 calls setSensorData(updater).
ToggleZone2 ==
    /\ Len(updateQueue) < MaxPending
    /\ updateQueue' = Append(updateQueue, "toggleZone2")
    /\ UNCHANGED <<pumpWriteVars, authVars>>
    /\ UNCHANGED <<sensorData, ticksFired, storeVars, streamVars, pull, hookVars>>

\* The 3000 ms interval fires: setSensorData(updater).
IntervalFire ==
    /\ ticksFired < MaxTicks
    /\ Len(updateQueue) < MaxPending
    /\ ticksFired' = ticksFired + 1
    /\ updateQueue' = Append(updateQueue, "interval")
    /\ UNCHANGED <<pumpWriteVars, authVars>>
    /\ UNCHANGED <<sensorData, storeVars, streamVars, pull, hookVars>>

\* React renders: the queue is processed and the result committed.
Render ==
    /\ updateQueue # <<>>
    /\ sensorData' \in ProcessQueue(sensorData, updateQueue, ticksFired)
    /\ updateQueue' = <<>>
    /\ UNCHANGED <<pumpWriteVars, authVars>>
    /\ UNCHANGED <<ticksFired, storeVars, streamVars, pull, hookVars>>

\* ------------------------------------------------- database and DataService
\* Another party writes v at a channel's path; the database sends a value event
\* to this client when it has a listener there.
RemoteWrite(ch, v) ==
    /\ writes < MaxWrites
    /\ v # Node(ch)
    /\ writes' = writes + 1
    /\ sensorsNode' = IF ch = "sensors" THEN v ELSE sensorsNode
    /\ pumpNode' = IF ch = "pump" THEN v ELSE pumpNode
    /\ pendingEvents' = IF registered[ch]
                        THEN [pendingEvents EXCEPT ![ch] = Append(@, v)]
                        ELSE pendingEvents
    /\ UNCHANGED <<pumpWriteVars, authVars>>
    /\ UNCHANGED <<dashVars, registered, handle, unsubCalls, unsubThrew, delivered,
                   callbackLog, pull, hookVars>>

\* onValue(ref, handleData): handleData is registered, and the database answers
\* with the current value.
Register(ch) ==
    /\ handle' = [handle EXCEPT ![ch] = "held"]
    /\ registered' = [registered EXCEPT ![ch] = TRUE]
    /\ pendingEvents' = [pendingEvents EXCEPT ![ch] = Append(@, Node(ch))]

\* getSensorDataStream(callback) / getPumpStateStream(callback).
Subscribe(ch) ==
    /\ handle[ch] = "none"
    /\ Register(ch)
    /\ UNCHANGED <<pumpWriteVars, authVars>>
    /\ UNCHANGED <<dashVars, storeVars, unsubCalls, unsubThrew, delivered, callbackLog,
                   pull, hookVars>>

\* The callback calls of one delivery, each with the number of the delivery.
CallbackCalls(ch, data, callbackThrows) ==
    LET args == HandleData(ch, data, callbackThrows)
    IN  [i \in 1..Len(args) |-> [delivery |-> Len(delivered[ch]) + 1, arg |-> args[i]]]

\* A value event arrives: the database calls handleData when it is registered,
\* and drops the event when it is not.
DispatchEvent(ch, callbackThrows) ==
    /\ pendingEvents[ch] # <<>>
    /\ pendingEvents' = [pendingEvents EXCEPT ![ch] = Tail(@)]
    /\ IF registered[ch]
       THEN /\ delivered' = [delivered EXCEPT ![ch] = Append(@, Head(pendingEvents[ch]))]
            /\ callbackLog' = [callbackLog EXCEPT
                   ![ch] = @ \o CallbackCalls(ch, Head(pendingEvents[ch]), callbackThrows)]
       ELSE /\ callbackThrows = FALSE
            /\ UNCHANGED <<delivered, callbackLog>>

\* A delivery to a subscriber whose callback may throw.
Dispatch(ch, callbackThrows) ==
    /\ DispatchEvent(ch, callbackThrows)
    /\ UNCHANGED <<pumpWriteVars, authVars>>
    /\ UNCHANGED <<dashVars, storeVars, registered, handle, unsubCalls, unsubThrew, pull,
                   hookVars>>

\* The subscriber calls the unsubscribe function it holds.
Unsubscribe(ch) ==
    /\ handle[ch] = "held"
    /\ unsubCalls[ch] < MaxUnsubCalls
    /\ unsubCalls' = [unsubCalls EXCEPT ![ch] = @ + 1]
    /\ registered' = [registered EXCEPT ![ch] = Unsubscribed(ch, registered[ch]).registered]
    /\ unsubThrew' = [unsubThrew EXCEPT ![ch] = @ \/ Unsubscribed(ch, registered[ch]).threw]
    /\ UNCHANGED <<pumpWriteVars, authVars>>
    /\ UNCHANGED <<dashVars, storeVars, handle, pendingEvents, delivered, callbackLog, pull,
                   hookVars>>

\* getSensorData() is called and awaits get(sensorsRef).
GetSensorDataCall ==
    /\ pull.pc = "idle"
    /\ pull' = [pull EXCEPT !.pc = "awaiting"]
    /\ UNCHANGED <<pumpWriteVars, authVars>>
    /\ UNCHANGED <<dashVars, storeVars, streamVars, hookVars>>

\* get(sensorsRef) settles, with the stored value or with a transport error,
\* and getSensorData runs to its end.
GetSensorDataSettle(failed) ==
    /\ pull.pc = "awaiting"
    /\ LET read == [failed |-> failed, val |-> IF failed THEN Null ELSE sensorsNode]
       IN  pull' = [pc |-> "settled",
                    settled |-> getSensorData(read).settled,
                    failed |-> failed,
                    read |-> read.val,
                    value |-> getSensorData(read).value]
    /\ UNCHANGED <<pumpWriteVars, authVars>>
    /\ UNCHANGED <<dashVars, storeVars, streamVars, hookVars>>

\* ------------------------------------------------------------------ hooks
\* `await DataService.checkConnection()` settles in initializeData /
\* initializePumpControl: updateConnectionStatus(connected), then the initial
\* pull is called and awaited.  A view that has unmounted keeps no state.
HookConnectionSettles(h, connected) ==
    /\ hookPc[h] = "checkConnection"
    /\ hookPc' = [hookPc EXCEPT ![h] = "getInitial"]
    /\ sensorState' = IF h = "useSensorData" /\ ~cleanupRan[h]
                      THEN updateConnectionStatus(sensorState, connected) ELSE sensorState
    /\ pumpState' = IF h = "usePumpControl" /\ ~cleanupRan[h]
                    THEN updateConnectionStatus(pumpState, connected) ELSE pumpState
    /\ UNCHANGED <<pumpWriteVars, authVars>>
    /\ UNCHANGED <<dashVars, storeVars, streamVars, pull, cleanupRan, unsubscribeVar,
                   hookCalls>>

\* The initial pull settles (getSensorData / getPumpState): the state is
\* updated with it and the real-time listener is set up, its unsubscribe
\* function stored in the effect's variable.
HookInitialSettles(h, failed) ==
    /\ hookPc[h] = "getInitial"
    /\ hookPc' = [hookPc EXCEPT ![h] = "listening"]
    /\ LET read == [failed |-> failed, val |-> IF failed THEN Null ELSE Node(ChannelOf(h))]
       IN  /\ sensorState' = IF h = "useSensorData" /\ ~cleanupRan[h]
                             THEN updateSensorData(sensorState, getSensorData(read).value)
                             ELSE sensorState
           /\ pumpState' = IF h = "usePumpControl" /\ ~cleanupRan[h]
                           THEN updatePumpStatus(pumpState, getPumpState(read))
                           ELSE pumpState
    /\ Register(ChannelOf(h))
    /\ unsubscribeVar' = [unsubscribeVar EXCEPT ![h] = "fn"]
    /\ UNCHANGED <<pumpWriteVars, authVars>>
    /\ UNCHANGED <<dashVars, storeVars, unsubCalls, unsubThrew, delivered, callbackLog, pull,
                   cleanupRan, hookCalls>>

\* A value event arrives for a hook's stream: handleData calls updateSensorData
\* / updatePumpStatus, which never throws.
HookDispatch(h) ==
    /\ DispatchEvent(ChannelOf(h), FALSE)
    /\ LET live == registered[ChannelOf(h)] /\ ~cleanupRan[h]
           arg == HandleData(ChannelOf(h), Head(pendingEvents[ChannelOf(h)]), FALSE)[1]
       IN  /\ sensorState' = IF h = "useSensorData" /\ live
                             THEN updateSensorData(sensorState, arg) ELSE sensorState
           /\ pumpState' = IF h = "usePumpControl" /\ live
                           THEN updatePumpStatus(pumpState, arg) ELSE pumpState
    /\ UNCHANGED <<pumpWriteVars, authVars>>
    /\ UNCHANGED <<dashVars, storeVars, registered, handle, unsubCalls, unsubThrew, pull,
                   hookPc, cleanupRan, unsubscribeVar, hookCalls>>

\* The view unmounts: React runs the effect's cleanup.
HookUnmount(h) ==
    /\ ~cleanupRan[h]
    /\ cleanupRan' = [cleanupRan EXCEPT ![h] = TRUE]
    /\ LET after == effectCleanup(h, unsubscribeVar[h], registered[ChannelOf(h)])
       IN  /\ registered' = [registered EXCEPT ![ChannelOf(h)] = after.registered]
           /\ unsubCalls' = [unsubCalls EXCEPT
                  ![ChannelOf(h)] = IF after.called THEN @ + 1 ELSE @]
    /\ UNCHANGED <<pumpWriteVars, authVars>>
    /\ UNCHANGED <<dashVars, storeVars, handle, unsubThrew, pendingEvents, delivered,
                   callbackLog, pull, hookPc, unsubscribeVar, sensorState, pumpState,
                   hookCalls>>

\* ------------------------------------------- usePumpControl's operations
\* togglePump is called: setPumpState(loading), then DataService.setPumpState
\* with the opposite of the status the hook holds.
HookTogglePump ==
    /\ ~cleanupRan["usePumpControl"]
    /\ Len(hookCalls) < MaxCalls
    /\ Len(pumpCalls) < MaxCalls
    /\ LET newStatus == toggledStatus(pumpState.pumpStatus)
       IN  /\ pumpCalls' = Append(pumpCalls, setPumpState(newStatus))
           /\ hookCalls' = Append(hookCalls, [op |-> "togglePump", status |-> newStatus,
                                              call |-> Len(pumpCalls) + 1, pc |-> "awaiting"])
    /\ pumpState' = pumpOperationStarted(pumpState)
    /\ UNCHANGED <<auditLog, authVars>>
    /\ UNCHANGED <<dashVars, storeVars, streamVars, pull, hookPc, cleanupRan, unsubscribeVar,
                   sensorState>>

\* setPumpStatus(status) is called.
HookSetPumpStatus(status) ==
    /\ ~cleanupRan["usePumpControl"]
    /\ Len(hookCalls) < MaxCalls
    /\ Len(pumpCalls) < MaxCalls
    /\ pumpCalls' = Append(pumpCalls, setPumpState(status))
    /\ hookCalls' = Append(hookCalls, [op |-> "setPumpStatus", status |-> status,
                                       call |-> Len(pumpCalls) + 1, pc |-> "awaiting"])
    /\ pumpState' = pumpOperationStarted(pumpState)
    /\ UNCHANGED <<auditLog, authVars>>
    /\ UNCHANGED <<dashVars, storeVars, streamVars, pull, hookPc, cleanupRan, unsubscribeVar,
                   sensorState>>

\* The setPumpState call of togglePump / setPumpStatus call k has returned:
\* updatePumpStatus on success, handleError otherwise.
HookWriteReturns(k) ==
    /\ k \in DOMAIN hookCalls
    /\ hookCalls[k].pc = "awaiting"
    /\ hookCalls[k].op \in {"togglePump", "setPumpStatus"}
    /\ pumpCalls[hookCalls[k].call].pc = "returned"
    /\ hookCalls' = [hookCalls EXCEPT ![k].pc = "done"]
    /\ pumpState' = IF cleanupRan["usePumpControl"] THEN pumpState
                    ELSE pumpWriteReturned(pumpState, hookCalls[k].op, hookCalls[k].status,
                                           pumpCalls[hookCalls[k].call].result)
    /\ UNCHANGED <<pumpWriteVars, authVars>>
    /\ UNCHANGED <<dashVars, storeVars, streamVars, pull, hookPc, cleanupRan, unsubscribeVar,
                   sensorState>>

\* refreshStatus is called: setPumpState(loading), then getPumpState is awaited.
HookRefreshStatus ==
    /\ ~cleanupRan["usePumpControl"]
    /\ Len(hookCalls) < MaxCalls
    /\ hookCalls' = Append(hookCalls, [op |-> "refreshStatus", status |-> OFF,
                                       call |-> 0, pc |-> "awaiting"])
    /\ pumpState' = pumpOperationStarted(pumpState)
    /\ UNCHANGED <<pumpWriteVars, authVars>>
    /\ UNCHANGED <<dashVars, storeVars, streamVars, pull, hookPc, cleanupRan, unsubscribeVar,
                   sensorState>>

\* `await DataService.getPumpState()` of refreshStatus call k settles.
HookRefreshSettles(k, failed) ==
    /\ k \in DOMAIN hookCalls
    /\ hookCalls[k].pc = "awaiting"
    /\ hookCalls[k].op = "refreshStatus"
    /\ hookCalls' = [hookCalls EXCEPT ![k].pc = "done"]
    /\ LET read == [failed |-> failed, val |-> IF failed THEN Null ELSE pumpNode]
       IN  pumpState' = IF cleanupRan["usePumpControl"] THEN pumpState
                        ELSE updatePumpStatus(pumpState, getPumpState(read))
    /\ UNCHANGED <<pumpWriteVars, authVars>>
    /\ UNCHANGED <<dashVars, storeVars, streamVars, pull, hookPc, cleanupRan, unsubscribeVar,
                   sensorState>>

\* ------------------------------------------------ useSensorData.refreshData
\* refreshData is called: setSensorState(loading), then getSensorData is
\* awaited.
HookRefreshData ==
    /\ ~cleanupRan["useSensorData"]
    /\ Len(hookCalls) < MaxCalls
    /\ hookCalls' = Append(hookCalls, [op |-> "refreshData", status |-> OFF,
                                       call |-> 0, pc |-> "awaiting"])
    /\ sensorState' = sensorOperationStarted(sensorState)
    /\ UNCHANGED <<pumpWriteVars, authVars>>
    /\ UNCHANGED <<dashVars, storeVars, streamVars, pull, hookPc, cleanupRan, unsubscribeVar,
                   pumpState>>

\* `await DataService.getSensorData()` of refreshData call k settles; the call
\* never rejects, and refreshData passes what it resolved with to
\* updateSensorData.
HookRefreshDataSettles(k, failed) ==
    /\ k \in DOMAIN hookCalls
    /\ hookCalls[k].pc = "awaiting"
    /\ hookCalls[k].op = "refreshData"
    /\ hookCalls' = [hookCalls EXCEPT ![k].pc = "done"]
    /\ LET read == [failed |-> failed, val |-> IF failed THEN Null ELSE sensorsNode]
       IN  sensorState' = IF cleanupRan["useSensorData"] THEN sensorState
                          ELSE updateSensorData(sensorState, getSensorData(read).value)
    /\ UNCHANGED <<pumpWriteVars, authVars>>
    /\ UNCHANGED <<dashVars, storeVars, streamVars, pull, hookPc, cleanupRan, unsubscribeVar,
                   pumpState>>

\* ---------------------------------------------------------- setPumpState
\* A caller invokes DataService.setPumpState(state).
SetPumpStateCall(state) ==
    /\ Len(pumpCalls) < MaxCalls
    /\ pumpCalls' = Append(pumpCalls, setPumpState(state))
    /\ UNCHANGED <<auditLog, authVars>>
    /\ UNCHANGED <<dashVars, storeVars, streamVars, pull, hookVars>>

\* `await set(pumpRef, state)` of call i settles.  A write that succeeded has
\* stored the value, and the database sends a value event to a listener.
SetPumpStateWriteSettles(i, failed) ==
    /\ i \in DOMAIN pumpCalls
    /\ pumpCalls[i].pc = "set"
    /\ pumpCalls' = [pumpCalls EXCEPT ![i] = setPumpStateWritten(@, failed)]
    /\ pumpNode' = IF failed THEN pumpNode ELSE pumpCalls[i].state
    /\ pendingEvents' = IF ~failed /\ registered["pump"]
                        THEN [pendingEvents EXCEPT !["pump"] = Append(@, pumpCalls[i].state)]
                        ELSE pendingEvents
    /\ UNCHANGED <<auditLog, authVars>>
    /\ UNCHANGED <<dashVars, sensorsNode, writes, registered, handle, unsubCalls,
                   unsubThrew, delivered, callbackLog, pull, hookVars>>

\* `await this.logAction(...)` of call i settles, and setPumpState returns.
SetPumpStateLogSettles(i, failed) ==
    /\ i \in DOMAIN pumpCalls
    /\ pumpCalls[i].pc = "log"
    /\ auditLog' = logAction(auditLog, PumpAction(pumpCalls[i].state), Now, failed)
    /\ pumpCalls' = [pumpCalls EXCEPT ![i] = setPumpStateLogged(@, failed, Len(auditLog'))]
    /\ UNCHANGED authVars
    /\ UNCHANGED <<dashVars, storeVars, streamVars, pull, hookVars>>

\* --------------------------------------------------------- authentication
\* The email addresses and passwords the operations are called with.
ValidEmail == <<"a", "@", "b", ".", "i", "o">>
MalformedEmail == <<"a", "@", "b">>
StrongPassword == <<"A", "b", "c", "d", "e", "1">>
WeakPassword == <<"a", "b", "c">>
\* The arguments an operation takes: its email address, its password (for
\* changePassword the current one) and whether a display name is given; <<>>
\* stands for an argument the operation does not have.
Emails(op) ==
    IF op \in {"signIn", "signUp", "sendPasswordResetEmail"}
    THEN {ValidEmail, MalformedEmail} ELSE {<<>>}
Passwords(op) ==
    IF op \in {"signIn", "signUp", "changePassword", "deleteAccount"}
    THEN {StrongPassword, WeakPassword} ELSE {<<>>}
DisplayNames(op) == IF op = "signUp" THEN BOOLEAN ELSE {FALSE}

\* The errors the provider rejects with: every code getAuthErrorMessage names
\* and one it does not, with the provider's own text or with none.
ProviderCodes ==
    {"auth/user-not-found", "auth/wrong-password", "auth/email-already-in-use",
     "auth/weak-password", "auth/invalid-email", "auth/user-disabled",
     "auth/too-many-requests", "auth/operation-not-allowed", "auth/invalid-credential",
     "auth/requires-recent-login", "auth/network-request-failed"}
ProviderErrors ==
    [code : ProviderCodes, message : {"Firebase: Error (auth/...)."}]
        \cup {[code |-> "auth/network-request-failed", message |-> ""]}

\* The provider accepts a call only with a well-formed email address, and
\* creates an account only with a password of six characters or more.
ProviderAccepts(call) ==
    /\ call.fn \in {"signInWithEmailAndPassword", "createUserWithEmailAndPassword",
                    "sendPasswordResetEmail"} => isValidEmail(call.email)
    /\ call.fn = "createUserWithEmailAndPassword" => Len(call.password) >= 6

\* An operation of useAuth is called: setAuthState(loading), then the
\* AuthService operation up to its first await.  signOut is handleLogout's,
\* which Index hands to Navigation.
AuthStart(op, email, password, withName) ==
    /\ authCall.pc \in {"idle", "settled"}
    /\ authCall.n < MaxAuthCalls
    /\ op = "signOut" => view # "AuthWrapper"
    /\ IF NeedsCurrentUser(op) /\ currentUser = "null"
       THEN LET thrown == getAuthErrorMessage(NoUserLoggedIn)
            IN  /\ authCall' = [n |-> authCall.n + 1, pc |-> "settled", op |-> op,
                                withName |-> withName, step |-> 0,
                                settled |-> "rejected", thrown |-> thrown]
                /\ authState' = authFailed(authStarted(authState), thrown)
                /\ providerLog' = providerLog
       ELSE /\ authCall' = [n |-> authCall.n + 1, pc |-> "awaiting", op |-> op,
                            withName |-> withName, step |-> 1,
                            settled |-> "none", thrown |-> "null"]
            /\ authState' = authStarted(authState)
            /\ providerLog' = Append(providerLog,
                   [fn |-> ProviderCalls(op, withName)[1], email |-> email,
                    password |-> password])
    /\ view' = IndexRender(authState'.user, activeTab)
    /\ UNCHANGED <<pumpWriteVars, currentUser, authEventPending, activeTab, passwordCheck>>
    /\ UNCHANGED <<dashVars, storeVars, streamVars, pull, hookVars>>

\* The provider function being awaited settles.  On success the operation
\* goes on to its next provider function, or resolves; on failure it throws
\* getAuthErrorMessage(error), which useAuth stores and throws again.
ProviderSettles(failed, error) ==
    /\ authCall.pc = "awaiting"
    /\ LET fns == ProviderCalls(authCall.op, authCall.withName)
           fn == fns[authCall.step]
           call == providerLog[Len(providerLog)]
       IN  IF failed
           THEN LET thrown == getAuthErrorMessage(error)
                IN  /\ authCall' = [authCall EXCEPT !.pc = "settled",
                                       !.settled = "rejected", !.thrown = thrown]
                    /\ authState' = authFailed(authState, thrown)
                    /\ UNCHANGED <<currentUser, authEventPending, providerLog, activeTab>>
           ELSE /\ ProviderAccepts(call)
                /\ currentUser' = CurrentUserAfter(fn, currentUser, "alice")
                /\ authEventPending' = (authEventPending \/ currentUser' # currentUser)
                /\ authState' = authState
                /\ IF authCall.step < Len(fns)
                   THEN /\ authCall' = [authCall EXCEPT !.step = @ + 1]
                        /\ providerLog' = Append(providerLog,
                               [call EXCEPT !.fn = fns[authCall.step + 1]])
                        /\ activeTab' = activeTab
                   ELSE /\ authCall' = [authCall EXCEPT !.pc = "settled",
                                           !.settled = "resolved"]
                        /\ providerLog' = providerLog
                        /\ activeTab' = IF authCall.op = "signOut" THEN "dashboard"
                                        ELSE activeTab
    /\ view' = IndexRender(authState'.user, activeTab')
    /\ UNCHANGED <<pumpWriteVars, passwordCheck>>
    /\ UNCHANGED <<dashVars, storeVars, streamVars, pull, hookVars>>

\* The provider notifies useAuth's onAuthStateChanged callback.
AuthStateNotify ==
    /\ authEventPending
    /\ authEventPending' = FALSE
    /\ authState' = authStateChanged(currentUser)
    /\ view' = IndexRender(authState'.user, activeTab)
    /\ UNCHANGED <<pumpWriteVars, currentUser, authCall, providerLog, activeTab,
                   passwordCheck>>
    /\ UNCHANGED <<dashVars, storeVars, streamVars, pull, hookVars>>

\* Navigation's onTabChange: setActiveTab(tab).  Navigation is rendered only
\* with the content.
Tabs == {"dashboard", "charts", "reports", "settings"}

SetActiveTab(tab) ==
    /\ view # "AuthWrapper"
    /\ tab # activeTab
    /\ activeTab' = tab
    /\ view' = IndexRender(authState.user, activeTab')
    /\ UNCHANGED <<pumpWriteVars, currentUser, authEventPending, authState, authCall,
                   providerLog, passwordCheck>>
    /\ UNCHANGED <<dashVars, storeVars, streamVars, pull, hookVars>>

\* ------------------------------------------------------ validatePassword
\* The passwords validatePassword is called with: every string of up to
\* MaxPasswordLen characters over an uppercase letter, a lowercase letter, a
\* digit and a character of none of the three classes.
PasswordChars == {"A", "a", "1", "-"}
PasswordInputs == UNION {[1..n -> PasswordChars] : n \in 0..MaxPasswordLen}

\* A caller invokes AuthService.validatePassword(password); one call is
\* followed, since the function reads and keeps no state.
ValidatePassword(password) ==
    /\ passwordCheck.result = "none"
    /\ passwordCheck' = [password |-> password, result |-> validatePassword(password)]
    /\ UNCHANGED <<pumpWriteVars, currentUser, authEventPending, authState, authCall,
                   providerLog, activeTab, view>>
    /\ UNCHANGED <<dashVars, storeVars, streamVars, pull, hookVars>>

\* ========================================================= specifications
NextDashboard ==
    \/ ToggleZone1
    \/ ToggleZone2
    \/ IntervalFire
    \/ Render

InitDashboardView ==
    /\ InitDashboard /\ InitService /\ InitHooks /\ InitPumpWrite /\ InitAuth
    /\ sensorsNode = Null /\ pumpNode = Null

\* The Dashboard view.
SpecDashboard == InitDashboardView /\ [][NextDashboard]_vars

NextNormalize ==
    \/ \E throws \in BOOLEAN : Dispatch("sensors", throws)
    \/ GetSensorDataCall
    \/ \E failed \in BOOLEAN : GetSensorDataSettle(failed)

\* A subscription to the sensor stream has just been made (its first value
\* event is in flight); the stored value is any of Snapshots.
InitNormalize ==
    /\ InitDashboard /\ InitHooks /\ InitPumpWrite /\ InitAuth
    /\ sensorsNode \in Snapshots /\ pumpNode = Null /\ writes = 0
    /\ registered = [ch \in Channels |-> ch = "sensors"]
    /\ handle = [ch \in Channels |-> IF ch = "sensors" THEN "held" ELSE "none"]
    /\ unsubCalls = [ch \in Channels |-> 0]
    /\ unsubThrew = [ch \in Channels |-> FALSE]
    /\ pendingEvents = [ch \in Channels |-> IF ch = "sensors" THEN <<sensorsNode>> ELSE <<>>]
    /\ delivered = [ch \in Channels |-> <<>>]
    /\ callbackLog = [ch \in Channels |-> <<>>]
    /\ pull = [pc |-> "idle", settled |-> "none", failed |-> FALSE, read |-> Null,
               value |-> DEFAULT_SENSOR_DATA]

\* Normalization of one stored value, whatever it is, by the stream and by one
\* getSensorData call.
SpecNormalize == InitNormalize /\ [][NextNormalize]_vars

NextStream ==
    \/ \E v \in StreamSensorValues : RemoteWrite("sensors", v)
    \/ \E v \in StreamPumpValues : RemoteWrite("pump", v)
    \/ \E ch \in Channels : Subscribe(ch)
    \/ \E ch \in Channels, throws \in BOOLEAN : Dispatch(ch, throws)
    \/ \E ch \in Channels : Unsubscribe(ch)

InitStream ==
    /\ InitDashboard /\ InitService /\ InitHooks /\ InitPumpWrite /\ InitAuth
    /\ sensorsNode \in StreamSensorValues /\ pumpNode \in StreamPumpValues

\* One subscriber of each stream, while other parties write to the database.
SpecStream == InitStream /\ [][NextStream]_vars

NextHooks ==
    \/ \E v \in StreamSensorValues : RemoteWrite("sensors", v)
    \/ \E v \in StreamPumpValues : RemoteWrite("pump", v)
    \/ \E h \in Hooks, connected \in BOOLEAN : HookConnectionSettles(h, connected)
    \/ \E h \in Hooks, failed \in BOOLEAN : HookInitialSettles(h, failed)
    \/ \E h \in Hooks : HookDispatch(h)
    \/ \E h \in Hooks : HookUnmount(h)

InitHooksView ==
    /\ InitDashboard /\ InitService /\ InitHooks /\ InitPumpWrite /\ InitAuth
    /\ sensorsNode \in StreamSensorValues /\ pumpNode \in StreamPumpValues

\* The views that use useSensorData and usePumpControl, from mount to unmount,
\* while other parties write to the database.
SpecHooks == InitHooksView /\ [][NextHooks]_vars

NextSensorHook ==
    \/ \E v \in StreamSensorValues : RemoteWrite("sensors", v)
    \/ \E connected \in BOOLEAN : HookConnectionSettles("useSensorData", connected)
    \/ \E failed \in BOOLEAN : HookInitialSettles("useSensorData", failed)
    \/ HookDispatch("useSensorData")
    \/ HookRefreshData
    \/ \E k \in 1..MaxCalls, failed \in BOOLEAN : HookRefreshDataSettles(k, failed)

InitSensorHook ==
    /\ InitDashboard /\ InitService /\ InitHooks /\ InitPumpWrite /\ InitAuth
    /\ sensorsNode \in StreamSensorValues /\ pumpNode = Null

\* The view that uses useSensorData calls refreshData while the sensor record
\* changes and the stream delivers.
SpecSensorHook == InitSensorHook /\ [][NextSensorHook]_vars

NextValidate == \E password \in PasswordInputs : ValidatePassword(password)

InitValidate ==
    /\ InitDashboard /\ InitService /\ InitHooks /\ InitPumpWrite /\ InitAuth
    /\ sensorsNode = Null /\ pumpNode = Null

\* Callers of AuthService.validatePassword, with every password of the set.
SpecValidate == InitValidate /\ [][NextValidate]_vars

\* The values other parties store at the pump flag's path.
PumpNodeValues == {Null, ON, OFF}

NextPumpWrite ==
    \/ \E state \in PumpArgs : SetPumpStateCall(state)
    \/ \E i \in 1..MaxCalls, failed \in BOOLEAN : SetPumpStateWriteSettles(i, failed)
    \/ \E i \in 1..MaxCalls, failed \in BOOLEAN : SetPumpStateLogSettles(i, failed)
    \/ \E v \in PumpNodeValues : RemoteWrite("pump", v)

InitPumpWriteView ==
    /\ InitDashboard /\ InitService /\ InitHooks /\ InitPumpWrite /\ InitAuth
    /\ sensorsNode = Null /\ pumpNode \in PumpNodeValues

\* Callers of setPumpState, whose calls may overlap, while other parties write
\* the pump flag.
SpecPumpWrite == InitPumpWriteView /\ [][NextPumpWrite]_vars

NextAuth ==
    \/ \E op \in AuthOps : \E email \in Emails(op), password \in Passwords(op),
                              withName \in DisplayNames(op) :
          AuthStart(op, email, password, withName)
    \/ \E failed \in BOOLEAN, error \in ProviderErrors : ProviderSettles(failed, error)
    \/ AuthStateNotify
    \/ \E tab \in Tabs : SetActiveTab(tab)

InitAuthView ==
    /\ InitDashboard /\ InitService /\ InitHooks /\ InitPumpWrite /\ InitAuth
    /\ sensorsNode = Null /\ pumpNode = Null

\* Index and its useAuth, while operations are called on useAuth and the
\* provider answers.
SpecAuth == InitAuthView /\ [][NextAuth]_vars

\* A click on a zone switch, once React has committed the click before it.
ClickZone1 == updateQueue = <<>> /\ ToggleZone1
ClickZone2 == updateQueue = <<>> /\ ToggleZone2

\* An operation of usePumpControl is called.
PumpControlOperation ==
    /\ Len(hookCalls) < MaxControlOps
    /\ \/ HookTogglePump
       \/ \E status \in {ON, OFF} : HookSetPumpStatus(status)
       \/ HookRefreshStatus

NextControl ==
    \/ ClickZone1
    \/ ClickZone2
    \/ Render
    \/ \E connected \in BOOLEAN : HookConnectionSettles("usePumpControl", connected)
    \/ \E failed \in BOOLEAN : HookInitialSettles("usePumpControl", failed)
    \/ HookDispatch("usePumpControl")
    \/ PumpControlOperation
    \/ \E i \in 1..MaxCalls, failed \in BOOLEAN : SetPumpStateWriteSettles(i, failed)
    \/ \E i \in 1..MaxCalls, failed \in BOOLEAN : SetPumpStateLogSettles(i, failed)
    \/ \E k \in 1..MaxCalls : HookWriteReturns(k)
    \/ \E k \in 1..MaxCalls, failed \in BOOLEAN : HookRefreshSettles(k, failed)

InitControl ==
    /\ InitDashboard /\ InitService /\ InitHooks /\ InitPumpWrite /\ InitAuth
    /\ sensorsNode = Null /\ pumpNode \in PumpNodeValues

\* The Dashboard's zone controls next to a view that uses usePumpControl: the
\* two pump flags of the application.
SpecControl == InitControl /\ [][NextControl]_vars

\* Another party writes the pump flag.
OtherWriter ==
    /\ writes < MaxRaceWrites
    /\ \E v \in PumpNodeValues : RemoteWrite("pump", v)

NextPumpControl ==
    \/ OtherWriter
    \/ \E connected \in BOOLEAN : HookConnectionSettles("usePumpControl", connected)
    \/ \E failed \in BOOLEAN : HookInitialSettles("usePumpControl", failed)
    \/ HookDispatch("usePumpControl")
    \/ HookTogglePump
    \/ \E status \in {ON, OFF} : HookSetPumpStatus(status)
    \/ HookRefreshStatus
    \/ \E i \in 1..MaxCalls, failed \in BOOLEAN : SetPumpStateWriteSettles(i, failed)
    \/ \E i \in 1..MaxCalls, failed \in BOOLEAN : SetPumpStateLogSettles(i, failed)
    \/ \E k \in 1..MaxCalls : HookWriteReturns(k)
    \/ \E k \in 1..MaxCalls, failed \in BOOLEAN : HookRefreshSettles(k, failed)

InitPumpControl ==
    /\ InitDashboard /\ InitService /\ InitHooks /\ InitPumpWrite /\ InitAuth
    /\ sensorsNode = Null /\ pumpNode \in PumpNodeValues

\* A mounted view that uses usePumpControl: its operations, whose calls may
\* overlap, and the stream's deliveries, while other parties write the flag.
SpecPumpControl == InitPumpControl /\ [][NextPumpControl]_vars

\* ================================================================= claims
\* The callback calls made for the sensor stream, and the snapshots behind them.
SensorCalls == callbackLog["sensors"]
SensorDeliveries == delivered["sensors"]

\* A field value that is a number or a string that is a decimal literal from
\* its first character to its last.
IsNumericString(s) == ~ParseDecimalPrefix(s).nan /\ ParseDecimalPrefix(s).used = Len(s)
IsNumeric(v) == v.t = "number" \/ (v.t = "string" /\ IsNumericString(v.s))
NumericValue(v) == IF v.t = "number" THEN v.n ELSE ParseDecimalPrefix(v.s).val

\* The nearest value to x in the declared range of a canonical field.
NearestInRange(k, x) ==
    CASE k \in {"soilMoisture", "humidity", "tankLevel"} ->
            IF x < 0 THEN 0 ELSE IF x > 100 * Scale THEN 100 * Scale ELSE x
      [] k = "temperature" ->
            IF x < (0 - 50) * Scale THEN (0 - 50) * Scale
            ELSE IF x > 100 * Scale THEN 100 * Scale ELSE x
      [] k = "flowRate" ->
            IF x < 0 THEN 0 ELSE IF x > 1000 * Scale THEN 1000 * Scale ELSE x

CanonicalOf(key) == mapFirebaseToSensorData(key)

\* The first callback call of each delivery carries the record built from it.
FirstCallOf(i) ==
    SensorCalls[CHOOSE j \in 1..Len(SensorCalls) :
        /\ SensorCalls[j].delivery = i
        /\ \A l \in 1..(j - 1) : SensorCalls[l].delivery # i]

\* C1: in every reachable state of the Dashboard, pumpStatus is the OR of
\* zone1Status and zone2Status.
C1_PumpIsOrOfZones ==
    sensorData.pumpStatus = (sensorData.zone1Status \/ sensorData.zone2Status)

C1_Witness ==
    /\ sensorData.zone2Status /\ ~sensorData.zone1Status /\ sensorData.pumpStatus
    /\ sensorData.lastUpdate > 0

\* C2: every step that changes a zone flag of the committed state leaves the
\* pump flag equal to the OR of the new zone flags: no committed state shows a
\* new zone flag with a pump flag computed from the old ones.
C2_ZoneAndPumpChangeTogether ==
    [][ (\/ sensorData'.zone1Status # sensorData.zone1Status
         \/ sensorData'.zone2Status # sensorData.zone2Status)
        => sensorData'.pumpStatus = (sensorData'.zone1Status \/ sensorData'.zone2Status) ]_vars

C2_Witness ==
    /\ sensorData.zone1Status /\ sensorData.pumpStatus /\ ~sensorData.zone2Status
    /\ updateQueue = <<"interval", "toggleZone2">>

\* C3: whenever the raw record is absent, or a field of it is absent, null or
\* not numeric, the normalized field is the default 0 (stream and pull alike).
C3_AbsentOrNonNumericYieldsDefault ==
    /\ \A i \in 1..Len(SensorDeliveries) : \A key \in FirebaseSensorFields :
          (\/ SensorDeliveries[i].t \in {"null", "undefined"}
           \/ ~IsNumeric(GetProperty(SensorDeliveries[i], key)))
          => FirstCallOf(i).arg[CanonicalOf(key)] = 0
    /\ (pull.pc = "settled" /\ ~pull.failed) =>
          \A key \in FirebaseSensorFields :
              (\/ pull.read.t \in {"null", "undefined"}
               \/ ~IsNumeric(GetProperty(pull.read, key)))
              => pull.value[CanonicalOf(key)] = 0

\* C4: a numeric field value (a number or a numeric string) is normalized to
\* itself when it lies in the field's range and to the nearest bound when it
\* does not; the scenario reading normalizes to {100, 0, 55.5, 0, 0}.
C4_NumericValuesAreClamped ==
    /\ \A i \in 1..Len(SensorDeliveries) : \A key \in FirebaseSensorFields :
          IsNumeric(GetProperty(SensorDeliveries[i], key))
          => FirstCallOf(i).arg[CanonicalOf(key)]
               = NearestInRange(CanonicalOf(key), NumericValue(GetProperty(SensorDeliveries[i], key)))
    /\ (pull.pc = "settled" /\ ~pull.failed) =>
          /\ \A key \in FirebaseSensorFields :
                IsNumeric(GetProperty(pull.read, key))
                => pull.value[CanonicalOf(key)]
                     = NearestInRange(CanonicalOf(key), NumericValue(GetProperty(pull.read, key)))
          /\ pull.read = ScenarioReading =>
                pull.value = [ soilMoisture |-> 100 * Scale, temperature |-> 0,
                               humidity |-> 55500, tankLevel |-> 0, flowRate |-> 0 ]
    /\ \A i \in 1..Len(SensorDeliveries) :
          SensorDeliveries[i] = ScenarioReading =>
              FirstCallOf(i).arg = [ soilMoisture |-> 100 * Scale, temperature |-> 0,
                                     humidity |-> 55500, tankLevel |-> 0, flowRate |-> 0 ]

C4_Witness ==
    /\ pull.pc = "settled" /\ ~pull.failed /\ pull.read = ScenarioReading
    /\ pull.value.humidity = 55500
    /\ Len(SensorCalls) = 1 /\ SensorCalls[1].arg.soilMoisture = 100 * Scale

\* A record with the five fields, each an integer inside its declared range.
IsCanonical(r) ==
    /\ DOMAIN r = SensorDataKeys
    /\ \A k \in SensorDataKeys :
          /\ r[k] \in Int
          /\ r[k] >= (IF k = "temperature" THEN (0 - 50) * Scale ELSE 0)
          /\ r[k] <= (IF k = "flowRate" THEN 1000 * Scale ELSE 100 * Scale)

\* C5: every record passed to the stream's callback and every record
\* getSensorData resolves with, on the normal and on the fallback path, has the
\* five fields, each inside its declared range.
C5_EveryRecordIsCanonical ==
    /\ \A j \in 1..Len(SensorCalls) : IsCanonical(SensorCalls[j].arg)
    /\ pull.pc = "settled" => IsCanonical(pull.value)

C5_Witness ==
    /\ sensorsNode = Obj([NoFields EXCEPT !["FlowRate_LperMin"] = Num(1001 * Scale)])
    /\ Len(SensorCalls) = 2
    /\ pull.pc = "settled" /\ ~pull.failed /\ pull.value.flowRate = 1000 * Scale

\* The result of normalizing a delivered value on a channel: field by field
\* with parseAndValidateSensorValue, and `state || 'OFF'` for the pump.
NormalizedDelivery(ch, data) ==
    IF ch = "sensors"
    THEN [k \in SensorDataKeys |->
            parseAndValidateSensorValue(data, CHOOSE f \in FirebaseSensorFields : CanonicalOf(f) = k)]
    ELSE IF Truthy(data) THEN data ELSE OFF

\* C6: for every delivery made while the subscription is active the callback
\* is called exactly once, with the normalized result of that delivery, and
\* the calls follow the order of the deliveries.
C6_ExactlyOneCallPerDelivery ==
    \A ch \in Channels :
        /\ Len(callbackLog[ch]) = Len(delivered[ch])
        /\ \A i \in 1..Len(callbackLog[ch]) :
              /\ callbackLog[ch][i].delivery = i
              /\ callbackLog[ch][i].arg = NormalizedDelivery(ch, delivered[ch][i])

C8_TeardownCancelsSubscription ==
    \A h \in Hooks : cleanupRan[h] => ~registered[ChannelOf(h)]

\* C9: a second or later call of an unsubscribe function throws nothing and
\* leaves the listener unregistered.
C9_UnsubscribeIsIdempotent ==
    [][ \A ch \in Channels :
            (unsubCalls[ch] >= 1 /\ unsubCalls'[ch] = unsubCalls[ch] + 1)
            => /\ ~registered'[ch]
               /\ registered'[ch] = registered[ch]
               /\ ~unsubThrew'[ch] ]_vars

C9_Witness ==
    /\ unsubCalls["pump"] = 2 /\ ~registered["pump"]
    /\ unsubCalls["sensors"] = 2 /\ ~registered["sensors"]

\* C10: a settled getSensorData call has resolved, never rejected: with the
\* all-zero record when the read failed or nothing is stored, and with the
\* normalization of the stored record otherwise.
C10_GetSensorDataNeverRejects ==
    pull.pc = "settled" =>
        /\ pull.settled = "resolved"
        /\ (pull.failed \/ sensorsNode = Null) =>
              pull.value = [k \in SensorDataKeys |-> 0]
        /\ (~pull.failed /\ sensorsNode # Null) =>
              pull.value = NormalizedDelivery("sensors", sensorsNode)

C10_Witness ==
    /\ pull.pc = "settled" /\ pull.failed
    /\ sensorsNode = ScenarioReading
    /\ pull.value.soilMoisture = 0

\* ------------------------------------------------------------ setPumpState
ReturnedCalls == {i \in DOMAIN pumpCalls : pumpCalls[i].pc = "returned"}
SucceededCalls == {i \in ReturnedCalls : pumpCalls[i].result}

\* C11: setPumpState called with any value other than "ON" or "OFF" (here
\* "MAYBE") returns false, writes nothing to the remote pump flag and appends
\* no audit-log entry: such a call has returned false as soon as it is made,
\* the pump flag never holds its value and no audit entry names it.
C11_InvalidStateIsRejected ==
    /\ \A i \in DOMAIN pumpCalls :
          pumpCalls[i].state \notin {ON, OFF} =>
              /\ pumpCalls[i].pc = "returned"
              /\ pumpCalls[i].settled = "resolved"
              /\ pumpCalls[i].result = FALSE
              /\ ~pumpCalls[i].wrote
              /\ pumpCalls[i].entry = 0
    /\ pumpNode \in PumpNodeValues
    /\ \A k \in DOMAIN auditLog : auditLog[k].action \in {PumpAction(ON), PumpAction(OFF)}

\* A call with "MAYBE" has returned, next to a call with "ON" that wrote the
\* flag and its audit entry.
C11_Witness ==
    /\ \E i \in ReturnedCalls : pumpCalls[i].state = MAYBE
    /\ \E i \in SucceededCalls : pumpCalls[i].state = ON
    /\ pumpNode = ON
    /\ Len(auditLog) = 1

C13_SetPumpStateNeverRejects ==
    \A i \in DOMAIN pumpCalls :
        /\ pumpCalls[i].settled # "rejected"
        /\ pumpCalls[i].pc = "returned" => pumpCalls[i].settled = "resolved"
        /\ pumpCalls[i].result => pumpCalls[i].wrote
        /\ (pumpCalls[i].pc = "returned" /\ ~pumpCalls[i].wrote) => ~pumpCalls[i].result

\* A call with "ON" whose remote write failed has resolved with false, and the
\* flag is not "ON".
C13_Witness ==
    \E i \in ReturnedCalls :
        /\ pumpCalls[i].state = ON
        /\ ~pumpCalls[i].wrote
        /\ pumpCalls[i].settled = "resolved"
        /\ pumpNode # ON

\* ---------------------------------------------------------- pump flag read
\* C14: getPumpState and every value getPumpStateStream delivers is "ON" or
\* "OFF", whatever the remote store holds: every argument the stream has
\* passed to its subscriber, and the status usePumpControl holds from its
\* initial getPumpState and from the stream, is one of the two literals.
C14_PumpReadIsOnOrOff ==
    /\ \A k \in DOMAIN callbackLog["pump"] : callbackLog["pump"][k].arg \in {ON, OFF}
    /\ pumpState.pumpStatus \in {ON, OFF}

\* ---------------------------------------------------------- authentication
\* The messages getAuthErrorMessage has for the codes it names, and its
\* catch-all.
AuthMessages ==
    {"No user found with this email address.",
     "Incorrect password. Please try again.",
     "An account already exists with this email address.",
     "Password is too weak. Please choose a stronger password.",
     "Invalid email address. Please check your email.",
     "This account has been disabled. Please contact support.",
     "Too many failed attempts. Please try again later.",
     "This sign-in method is not allowed. Please contact support.",
     "Invalid credentials. Please check your email and password.",
     "Please sign in again to perform this action.",
     "An authentication error occurred."}

\* C15: for every error the authentication provider raises during an
\* AuthService operation, the value thrown to the caller (and stored by
\* useAuth) is one of the fixed messages: one per named code, or the
\* catch-all; the provider's own message text never reaches the caller.
C15_ThrownIsAFixedMessage ==
    (authCall.settled = "rejected" /\ authCall.step > 0) =>
        /\ authCall.thrown \in AuthMessages
        /\ authState.error \in AuthMessages

\* C16: no call of the provider's sign-in or sign-up function is made with a
\* malformed email address or a weak password: such a request is rejected
\* before the provider is called.
C16_ValidationPrecedesProvider ==
    \A k \in DOMAIN providerLog :
        providerLog[k].fn \in {"signInWithEmailAndPassword",
                               "createUserWithEmailAndPassword"} =>
            /\ isValidEmail(providerLog[k].email)
            /\ validatePassword(providerLog[k].password) = "null"

\* C17: Index renders Dashboard, Charts, Reports or Settings only while
\* useAuth's user is non-null, and renders the authentication screen whenever
\* the user is null, whatever the active tab.
C17_ContentOnlyWhenSignedIn ==
    /\ view \in {"Dashboard", "Charts", "Reports", "Settings"} => authState.user # "null"
    /\ authState.user = "null" => view = "AuthWrapper"

\* The user was signed in, chose the settings tab and is signed out again (the
\* account was deleted): the authentication screen shows, the tab still set.
C17_Witness ==
    /\ authCall.n = 2
    /\ authState.user = "null"
    /\ activeTab = "settings"
    /\ view = "AuthWrapper"

\* ------------------------------------------------------ the two pump flags
ZoneFlags == <<sensorData.zone1Status, sensorData.zone2Status, sensorData.pumpStatus>>

\* C19: the Dashboard's derived pump flag and the remote pump flag stay
\* separate.  A step that takes a zone click or commits it writes nothing to
\* the remote pump flag, starts no setPumpState call and appends no audit
\* entry; and a step of usePumpControl, of a setPumpState call or of a pump
\* delivery leaves zone1Status, zone2Status and the Dashboard's pumpStatus as
\* they were.
C19_PumpFlagsStaySeparate ==
    [][ /\ (updateQueue' # updateQueue \/ sensorData' # sensorData) =>
              UNCHANGED <<pumpNode, pumpCalls, auditLog, pumpState, hookCalls>>
        /\ (\/ pumpNode' # pumpNode \/ pumpCalls' # pumpCalls \/ auditLog' # auditLog
            \/ pumpState' # pumpState \/ hookCalls' # hookCalls
            \/ callbackLog' # callbackLog) =>
              (ZoneFlags' = ZoneFlags /\ updateQueue' = updateQueue) ]_vars

\* Zone 1 is on and the Dashboard shows the pump on, while usePumpControl has
\* switched the remote flag to "OFF" and logged it: the two flags disagree.
C19_Witness ==
    /\ sensorData.zone1Status /\ sensorData.pumpStatus
    /\ pumpNode = OFF /\ pumpState.pumpStatus = OFF
    /\ Len(auditLog) = 1
    /\ \E k \in DOMAIN hookCalls : hookCalls[k].pc = "done" /\ hookCalls[k].op # "refreshStatus"

\* The updaters that toggle a zone.
ZoneToggles == {"toggleZone1", "toggleZone2"}

\* C20: the Dashboard's pump flag is only ever derived.  A step that changes
\* zone1Status, zone2Status or pumpStatus is a render of a queue that holds a
\* toggleZone1 or toggleZone2 updater, and it leaves pumpStatus the OR of the
\* new zone flags; every other step, in particular a render of the periodic
\* simulated sensor update alone, leaves the three flags unchanged.
C20_OnlyTogglesChangePump ==
    [][ ZoneFlags' # ZoneFlags =>
            /\ \E i \in DOMAIN updateQueue : updateQueue[i] \in ZoneToggles
            /\ updateQueue' = <<>>
            /\ sensorData'.pumpStatus = (sensorData'.zone1Status \/ sensorData'.zone2Status) ]_vars

\* Zone 1 is on and both periodic updates have been rendered: the flags are
\* as the toggle left them.
C20_Witness ==
    /\ ticksFired = 2 /\ sensorData.lastUpdate = 2 /\ updateQueue = <<>>
    /\ sensorData.zone1Status /\ ~sensorData.zone2Status /\ sensorData.pumpStatus

\* ---------------------------------------------------------- zone toggles
\* The committed record with zone flags z1, z2 and pump flag p, every other
\* field as it is.
WithFlags(z1, z2, p) ==
    [ sensorData EXCEPT !.zone1Status = z1, !.zone2Status = z2, !.pumpStatus = p ]

\* C21: a render of one toggleZone1 (toggleZone2) updater flips exactly zone 1
\* (zone 2) and sets the pump to the OR of the new flags: the other zone's
\* flag and every sensor reading are unchanged; a render of the same toggle
\* twice in a row restores the zone flags and pumpStatus; and from zones
\* {F,F}, pump OFF, the toggles 1, 2, 1, 2 give zones {T,F}, {T,T}, {F,T},
\* {F,F} with pump ON, ON, ON, OFF.
C21_ToggleFlipsExactlyItsZone ==
    [][ /\ updateQueue = <<"toggleZone1">> /\ updateQueue' = <<>> =>
              sensorData' = WithFlags(~sensorData.zone1Status, sensorData.zone2Status,
                                      ~sensorData.zone1Status \/ sensorData.zone2Status)
        /\ updateQueue = <<"toggleZone2">> /\ updateQueue' = <<>> =>
              sensorData' = WithFlags(sensorData.zone1Status, ~sensorData.zone2Status,
                                      sensorData.zone1Status \/ ~sensorData.zone2Status)
        /\ (updateQueue \in {<<"toggleZone1", "toggleZone1">>, <<"toggleZone2", "toggleZone2">>}
            /\ updateQueue' = <<>>) => sensorData' = sensorData
        /\ (ZoneFlags = <<FALSE, FALSE, FALSE>> /\ updateQueue = <<"toggleZone1">>
            /\ updateQueue' = <<>>) => ZoneFlags' = <<TRUE, FALSE, TRUE>>
        /\ (ZoneFlags = <<TRUE, FALSE, TRUE>> /\ updateQueue = <<"toggleZone2">>
            /\ updateQueue' = <<>>) => ZoneFlags' = <<TRUE, TRUE, TRUE>>
        /\ (ZoneFlags = <<TRUE, TRUE, TRUE>> /\ updateQueue = <<"toggleZone1">>
            /\ updateQueue' = <<>>) => ZoneFlags' = <<FALSE, TRUE, TRUE>>
        /\ (ZoneFlags = <<FALSE, TRUE, TRUE>> /\ updateQueue = <<"toggleZone2">>
            /\ updateQueue' = <<>>) => ZoneFlags' = <<FALSE, FALSE, FALSE>>
        /\ (ZoneFlags = <<FALSE, FALSE, FALSE>> /\ updateQueue = <<"toggleZone1", "toggleZone2">>
            /\ updateQueue' = <<>>) => ZoneFlags' = <<TRUE, TRUE, TRUE>>
        /\ (ZoneFlags = <<TRUE, TRUE, TRUE>> /\ updateQueue = <<"toggleZone1", "toggleZone2">>
            /\ updateQueue' = <<>>) => ZoneFlags' = <<FALSE, FALSE, FALSE>> ]_vars

\* The third state of the scenario, the fourth toggle clicked and not yet
\* rendered: zones {F,T}, pump ON, no periodic update so far.
C21_Witness ==
    /\ ZoneFlags = <<FALSE, TRUE, TRUE>>
    /\ updateQueue = <<"toggleZone2">>
    /\ ticksFired = 0 /\ sensorData.lastUpdate = 0

\* ------------------------------------------------------- pull and stream
\* C22: the pull variant and the stream normalize identically: whenever
\* getSensorData has resolved from a read that succeeded, its record equals
\* the record handleData first passed to the subscriber for every delivery of
\* the same snapshot value, whatever that value is.
C22_PullEqualsStream ==
    (pull.pc = "settled" /\ ~pull.failed) =>
        \A i \in 1..Len(SensorDeliveries) :
            SensorDeliveries[i] = pull.read => FirstCallOf(i).arg = pull.value

\* Both variants have normalized a record with one field present (a tank
\* level above its range); the other fields are absent.
C22_Witness ==
    /\ sensorsNode = Obj([NoFields EXCEPT !["TankLevel"] = Num(150 * Scale)])
    /\ pull.pc = "settled" /\ ~pull.failed /\ pull.value.tankLevel = 100 * Scale
    /\ Len(SensorDeliveries) = 1 /\ Len(SensorCalls) = 1

\* ---------------------------------------------------------- field mapping
\* The raw record that holds the one external field f as data holds it, and
\* nothing else.
OnlyField(data, f) == Obj([NoFields EXCEPT ![f] = GetProperty(data, f)])

\* The canonical value of external field f alone, as data holds it.
OwnFieldValue(data, f) == parseAndValidateSensorValue(OnlyField(data, f), f)

\* C23: each canonical field is computed from its own external field only,
\* through the fixed total mapping of the five names: in every record the
\* stream delivers and the pull returns, each canonical field has the value
\* that the record holding its external field alone gives, whatever the other
\* four fields and the keys outside the mapping hold.
C23_FieldDependsOnOwnKeyOnly ==
    /\ \A i \in 1..Len(SensorDeliveries) :
          /\ DOMAIN FirstCallOf(i).arg = SensorDataKeys
          /\ \A f \in FirebaseSensorFields :
                FirstCallOf(i).arg[mapFirebaseToSensorData(f)]
                    = OwnFieldValue(SensorDeliveries[i], f)
    /\ (pull.pc = "settled" /\ ~pull.failed) =>
          \A f \in FirebaseSensorFields :
                pull.value[mapFirebaseToSensorData(f)] = OwnFieldValue(pull.read, f)

\* A record with all five fields and a key outside the mapping has been
\* delivered and pulled: each field shows its own value.
C23_Witness ==
    /\ sensorsNode.t = "object"
    /\ sensorsNode.f["pH"] = Num(7 * Scale)
    /\ sensorsNode.f["Temperature"] = Str(<<"-", "1", "0">>)
    /\ sensorsNode.f["Humidity"] = Num(150 * Scale)
    /\ sensorsNode.f["TankLevel"] = Null
    /\ Len(SensorCalls) = 1
    /\ FirstCallOf(1).arg.temperature = (0 - 10) * Scale
    /\ FirstCallOf(1).arg.humidity = 100 * Scale
    /\ pull.pc = "settled" /\ ~pull.failed /\ pull.value.tankLevel = 0

\* ----------------------------------------------------------- usePumpControl
\* The pump flag as a reader sees it: "OFF" when the remote value is absent.
RemoteFlag == IF Truthy(pumpNode) THEN pumpNode ELSE OFF

\* usePumpControl is subscribed, none of its operations is in flight and no
\* stream delivery is outstanding.
PumpControlAtRest ==
    /\ hookPc["usePumpControl"] = "listening"
    /\ registered["pump"]
    /\ \A k \in DOMAIN hookCalls : hookCalls[k].pc = "done"
    /\ pendingEvents["pump"] = <<>>

\* C24: usePumpControl's local state converges to the remote flag: whenever
\* the stream is subscribed, no togglePump / setPumpStatus / refreshStatus call
\* is in flight and every stream delivery has been consumed, pumpStatus equals
\* the current remote pump flag.
C24_LocalStatusConverges ==
    PumpControlAtRest => pumpState.pumpStatus = RemoteFlag

\* C26: two togglePump calls toggle twice: when a second togglePump is called
\* before the write of the first has completed, the two writes request
\* opposite states.
C26_TwoTogglesRequestOpposite ==
    \A k, l \in DOMAIN hookCalls :
        (/\ k < l
         /\ hookCalls[k].op = "togglePump" /\ hookCalls[l].op = "togglePump"
         /\ pumpCalls[hookCalls[k].call].pc = "set"
         /\ pumpCalls[hookCalls[l].call].pc = "set")
        => pumpCalls[hookCalls[k].call].state # pumpCalls[hookCalls[l].call].state

\* C27: a failed pump write leaves the local status untouched.  On the step
\* that completes a togglePump or setPumpStatus call whose setPumpState
\* resolved with false, pumpStatus keeps its value, error becomes a message
\* and loading becomes false; and the step that completes any togglePump,
\* setPumpStatus or refreshStatus call, successful or not, leaves loading
\* false.
C27_FailedWriteKeepsStatus ==
    [][ \A k \in DOMAIN hookCalls :
            (hookCalls[k].pc = "awaiting" /\ hookCalls'[k].pc = "done") =>
                /\ pumpState'.loading = FALSE
                /\ (hookCalls[k].op \in {"togglePump", "setPumpStatus"}
                    /\ ~pumpCalls[hookCalls[k].call].result) =>
                        /\ pumpState'.pumpStatus = pumpState.pumpStatus
                        /\ pumpState'.error # "null" ]_vars

\* A togglePump call has completed after its write failed: the status is not
\* the requested one, the error is set and loading is false.
C27_Witness ==
    \E k \in DOMAIN hookCalls :
        /\ hookCalls[k].pc = "done" /\ hookCalls[k].op = "togglePump"
        /\ ~pumpCalls[hookCalls[k].call].result
        /\ pumpState.pumpStatus # hookCalls[k].status
        /\ pumpState.error = "Failed to update pump status"
        /\ ~pumpState.loading

\* useSensorData is at rest: the listener is attached, every refreshData call
\* has resolved and every delivery has been consumed.
SensorHookAtRest ==
    /\ hookPc["useSensorData"] = "listening"
    /\ registered["sensors"]
    /\ \A k \in DOMAIN hookCalls : hookCalls[k].pc = "done"
    /\ pendingEvents["sensors"] = <<>>

\* C25: useSensorData never replaces the held reading by an older one.  Once
\* the initial pull and every refreshData call have resolved and every stream
\* delivery has been consumed, state.data is the normalization of the record
\* the source holds.
C25_DataIsLatestAtRest ==
    SensorHookAtRest => sensorState.data = NormalizedDelivery("sensors", sensorsNode)

\* C28: useAuth's loading never stays stuck.  Every operation sets loading to
\* true and, once its AuthService call has settled, loading becomes false
\* again.  Stated on the states where nothing is left to happen for the call:
\* it has settled and the provider has no auth-state notification to deliver.
C28_LoadingFalseOnceSettled ==
    (authCall.pc = "settled" /\ ~authEventPending) => ~authState.loading

\* The setPumpState calls whose write of the pump flag has completed.
WrittenCalls == {i \in DOMAIN pumpCalls : pumpCalls[i].wrote}

\* C29: the audit log only grows and never runs ahead of the remote writes.
\* In every state the log holds at most as many entries as setPumpState calls
\* have completed their write of the pump flag; a step that appends appends
\* one entry, for a call whose write had completed before the step; and every
\* step keeps the entries the log already holds, in place and unchanged.
C29_AuditLogFollowsWrites ==
    /\ [](Len(auditLog) <= Cardinality(WrittenCalls))
    /\ [][ /\ Len(auditLog') >= Len(auditLog)
           /\ SubSeq(auditLog', 1, Len(auditLog)) = auditLog
           /\ Len(auditLog') > Len(auditLog) =>
                /\ Len(auditLog') = Len(auditLog) + 1
                /\ \E i \in WrittenCalls :
                      /\ pumpCalls[i].pc = "log" /\ pumpCalls'[i].pc = "returned"
                      /\ auditLog'[Len(auditLog')].action = PumpAction(pumpCalls[i].state) ]_vars

\* Two calls have returned: one wrote the flag and logged it, the other's
\* write failed; the log holds the one entry.
C29_Witness ==
    /\ Len(auditLog) = 1
    /\ Cardinality(WrittenCalls) = 1
    /\ \E i \in WrittenCalls : pumpCalls[i].entry = 1
    /\ \E i \in DOMAIN pumpCalls :
          pumpCalls[i].pc = "returned" /\ ~pumpCalls[i].wrote /\ pumpCalls[i].state \in {ON, OFF}

\* The characters of a password.
PasswordCharsOf(password) == {password[i] : i \in DOMAIN password}

\* C30: validatePassword returns null exactly for the passwords of at least
\* six characters that hold an uppercase letter, a lowercase letter and a
\* digit; for every other password it returns the message of the first rule
\* the password breaks, in the order length, uppercase, lowercase, digit.
C30_ValidatePasswordRules ==
    passwordCheck.result # "none" =>
        LET chars == PasswordCharsOf(passwordCheck.password)
            long == Len(passwordCheck.password) >= 6
            upper == chars \cap Upper # {}
            lower == chars \cap Lower # {}
            digit == chars \cap Digits # {}
            result == passwordCheck.result
        IN  /\ (result = "null") <=> (long /\ upper /\ lower /\ digit)
            /\ ~long => result = "Password must be at least 6 characters long."
            /\ (long /\ ~upper) =>
                   result = "Password must contain at least one uppercase letter."
            /\ (long /\ upper /\ ~lower) =>
                   result = "Password must contain at least one lowercase letter."
            /\ (long /\ upper /\ lower /\ ~digit) =>
                   result = "Password must contain at least one number."

\* A password of six digits breaks the uppercase and the lowercase rule: the
\* uppercase message is returned.
C30_Witness ==
    /\ passwordCheck.password = <<"1", "1", "1", "1", "1", "1">>
    /\ passwordCheck.result = "Password must contain at least one uppercase letter."

====
